---- MODULE Spec2Model ----
(***************************************************************************)
(* Feature engine of the NBA prop predictor: the batch materializer        *)
(* (features.py: process_data, clean_outliers) and the realtime assembler  *)
(* (realtime_features.py: calculate_realtime_features).                    *)
(*                                                                         *)
(* Numbers.  A pandas float cell is modelled as an exact rational          *)
(* [n |-> numerator, d |-> denominator] in lowest terms with d > 0.  The   *)
(* three non-finite floats are the cells with d = 0: NaN (n = 0), +inf     *)
(* (n = 1) and -inf (n = -1).  A standard deviation is carried as its      *)
(* square (the sample variance, ddof = 1), which is rational.              *)
(***************************************************************************)
EXTENDS Integers, Sequences, FiniteSets, TLC

VARIABLES raw, appended, pc, feat, out, req, rt, resp, handed, dirty, cleaned,
          answers, attempt, calls, waits, result, num_games, fetched,
          results, files, steps, force_retrain, returned

vars ==
    <<raw, appended, pc, feat, out, req, rt, resp, handed, dirty, cleaned,
      answers, attempt, calls, waits, result, num_games, fetched,
      results, files, steps, force_retrain, returned>>

\* the state of the pipeline and the state of one fetch_with_retry call
pipeline_vars ==
    <<raw, appended, pc, feat, out, req, rt, resp, handed, dirty, cleaned>>
retry_vars == <<answers, attempt, calls, waits, result>>

\* the argument and the result of one fetch_recent_games call
fetch_vars == <<num_games, fetched>>

\* one run of run_full_pipeline: the results list of run_realtime_prediction,
\* the files on disk, the steps run with what they returned, the argument
\* and the return value
run_vars == <<results, files, steps, force_retrain, returned>>

--------------------------------------------------------------------------
(* floats *)

NaN == [n |-> 0, d |-> 0]
PosInf == [n |-> 1, d |-> 0]
NegInf == [n |-> -1, d |-> 0]

Abs(i) == IF i < 0 THEN -i ELSE i
Max(a, b) == IF a > b THEN a ELSE b
Min(a, b) == IF a < b THEN a ELSE b

RECURSIVE Gcd(_, _)
Gcd(a, b) == IF b = 0 THEN a ELSE Gcd(b, a % b)

\* the float n/d, d # 0, in lowest terms
Norm(n, d) ==
    IF d = 1 THEN [n |-> n, d |-> 1]
    ELSE LET s == IF d < 0 THEN -1 ELSE 1
             g == Gcd(Abs(n), Abs(d))
         IN  [n |-> (s * n) \div g, d |-> (s * d) \div g]

Q(i) == [n |-> i, d |-> 1]

IsNaN(x) == x.d = 0 /\ x.n = 0
IsInf(x) == x.d = 0 /\ x.n # 0
NotNa(x) == ~IsNaN(x)
Finite(x) == x.d # 0

\* IEEE comparisons: every comparison with NaN is false
Lt(a, b) ==
    /\ NotNa(a) /\ NotNa(b)
    /\ IF IsInf(a) /\ IsInf(b) THEN a.n < b.n ELSE a.n * b.d < b.n * a.d
Gt(a, b) == Lt(b, a)
Ge(a, b) == NotNa(a) /\ NotNa(b) /\ ~Lt(a, b)
Le(a, b) == Ge(b, a)

Neg(a) == [n |-> -a.n, d |-> a.d]

Add(a, b) ==
    IF IsNaN(a) \/ IsNaN(b) THEN NaN
    ELSE IF IsInf(a) /\ IsInf(b) THEN (IF a.n = b.n THEN a ELSE NaN)
    ELSE IF IsInf(a) THEN a
    ELSE IF IsInf(b) THEN b
    ELSE IF a.d = b.d THEN Norm(a.n + b.n, a.d)
    ELSE Norm(a.n * b.d + b.n * a.d, a.d * b.d)

\* (mutant) a subtraction that takes a missing operand as zero
SubMissingAsZero(a, b) ==
    Add(IF IsNaN(a) THEN Q(0) ELSE a, Neg(IF IsNaN(b) THEN Q(0) ELSE b))

Sub(a, b) == Add(a, Neg(b))

Sign(i) == IF i > 0 THEN 1 ELSE IF i < 0 THEN -1 ELSE 0

Div(a, b) ==
    IF IsNaN(a) \/ IsNaN(b) THEN NaN
    ELSE IF IsInf(a) /\ IsInf(b) THEN NaN
    ELSE IF IsInf(b) THEN Q(0)
    ELSE IF IsInf(a) THEN [n |-> a.n * (IF b.n < 0 THEN -1 ELSE 1), d |-> 0]
    ELSE IF b.n = 0 THEN [n |-> Sign(a.n), d |-> 0]
    ELSE Norm(a.n * b.d, a.d * b.n)

RECURSIVE SumSeq(_)
SumSeq(s) == IF s = <<>> THEN Q(0) ELSE Add(s[1], SumSeq(Tail(s)))

RECURSIVE SumSq(_)
SumSq(s) ==
    IF s = <<>> THEN Q(0)
    ELSE Add(Norm(s[1].n * s[1].n, s[1].d * s[1].d), SumSq(Tail(s)))

\* Series.mean() / Series.std() of the non-missing values (skipna)
Valid(s) == SelectSeq(s, NotNa)
MeanOf(v) == IF Len(v) = 0 THEN NaN ELSE Div(SumSeq(v), Q(Len(v)))
VarOf(v) ==
    IF Len(v) < 2 THEN NaN
    ELSE LET sm == SumSeq(v)
         IN  Div(Sub(SumSq(v), Div(Norm(sm.n * sm.n, sm.d * sm.d), Q(Len(v)))),
                 Q(Len(v) - 1))

--------------------------------------------------------------------------
(* pandas series operations used by process_data *)

\* (mutant) the series is not shifted: the row's own game enters its window
NoShift(x) == x

Shift1(x) == [k \in 1..Len(x) |-> IF k = 1 THEN NaN ELSE x[k - 1]]

Window(x, k, w) == SubSeq(x, Max(1, k - w + 1), k)

RollingMean(x, w, mp) ==
    [k \in 1..Len(x) |->
        LET v == Valid(Window(x, k, w))
        IN  IF Len(v) >= mp THEN MeanOf(v) ELSE NaN]

RollingStd(x, w, mp) ==
    [k \in 1..Len(x) |->
        LET v == Valid(Window(x, k, w))
        IN  IF Len(v) >= mp THEN VarOf(v) ELSE NaN]

ExpandingMean(x) ==
    [k \in 1..Len(x) |->
        LET v == Valid(SubSeq(x, 1, k))
        IN  IF Len(v) >= 1 THEN MeanOf(v) ELSE NaN]

--------------------------------------------------------------------------
(* table operations: a table is a sequence of rows, a row a record *)

\* an eagerly evaluated copy of the sequence s
Tup(s) == SubSeq(s, 1, Len(s))

\* DataFrame.sort_values(by): the lexsort pandas uses for several keys is
\* stable, so rows that tie keep their relative order
SortValues(df, Less(_, _)) ==
    LET n == Len(df)
        rank == Tup([i \in 1..n |->
                    Cardinality({j \in 1..n :
                        \/ Less(df[j], df[i])
                        \/ (~Less(df[i], df[j]) /\ j < i)}) + 1])
    IN  Tup([r \in 1..n |-> df[CHOOSE i \in 1..n : rank[i] = r]])

\* df.groupby(Key): for every row, the positions of the rows of its group
\* in table order (idx) and the row's own place among them (pos)
GroupBy(df, Key(_)) ==
    Tup([i \in 1..Len(df) |->
        LET idx == SelectSeq(Tup([j \in 1..Len(df) |-> j]),
                             LAMBDA j : Key(df[j]) = Key(df[i]))
        IN  [idx |-> idx, pos |-> CHOOSE k \in 1..Len(idx) : idx[k] = i]])

\* grouped[col].transform(F): F applied to the group's series, the results
\* put back at the rows' positions
Transform(df, g, col, F(_)) ==
    Tup([i \in 1..Len(df) |->
        LET x == Tup([k \in 1..Len(g[i].idx) |-> df[g[i].idx[k]][col]])
        IN  F(x)[g[i].pos]])

\* grouped['GAME_DATE'].diff().dt.days
GroupDiffDays(df, g) ==
    Tup([i \in 1..Len(df) |->
        IF g[i].pos = 1 THEN NaN
        ELSE Q(df[i].GAME_DATE - df[g[i].idx[g[i].pos - 1]].GAME_DATE)])

\* (mutants) the cell, the series or the table is left as it is
KeepCell(v, w) == v
NoClip(v, lo, hi) == v
NoFill(x) == x
KeepAll(df) == df

\* Series.fillna(other): the missing cells take the other series' values
FillNa(v, w) == IF IsNaN(v) THEN w ELSE v

\* Series.clip(lo, hi); a missing cell stays missing
Clip(v, lo, hi) ==
    IF IsNaN(v) THEN NaN ELSE IF Lt(v, lo) THEN lo ELSE IF Gt(v, hi) THEN hi ELSE v

\* df.replace([np.inf, -np.inf], np.nan) on one cell
ReplaceInf(v) == IF IsInf(v) THEN NaN ELSE v

--------------------------------------------------------------------------
(* features.py *)

\* team codes in string order (sort_values on the OPPONENT column)
TeamCodes == <<"BOS", "LAL", "NYK", "UNK">>
TeamOrd(t) == CHOOSE k \in 1..Len(TeamCodes) : TeamCodes[k] = t

\* a MATCHUP string "LAL vs. BOS" / "LAL @ BOS" is the token sequence
\* <<"LAL", "vs.", "BOS">> / <<"LAL", "@", "BOS">>
get_opponent(matchup) ==
    IF matchup[2] = "vs." THEN matchup[3]
    ELSE IF matchup[2] = "@" THEN matchup[3]
    ELSE "UNK"

get_team(matchup) ==
    IF matchup[2] = "vs." THEN matchup[1]
    ELSE IF matchup[2] = "@" THEN matchup[1]
    ELSE "UNK"

is_home(matchup) == IF matchup[2] = "vs." THEN 1 ELSE 0

\* the numeric columns of a row of the raw log
StatCols == {"MIN", "PTS", "REB", "AST", "FGA", "FTA", "FG_PCT", "FG3_PCT",
             "FG3M", "PLUS_MINUS"}

\* the numeric columns of the table that clean_outliers receives
NumCols == StatCols \cup
    {"REST_DAYS", "DAYS_SINCE_LAST", "WL_BINARY",
     "L5_PTS", "L10_PTS", "SEASON_AVG_PTS", "L5_REB", "L10_REB", "L5_AST",
     "L10_AST", "L10_PTS_STD", "L10_REB_STD", "L10_AST_STD",
     "RECENT_TREND_PTS", "RECENT_TREND_REB", "RECENT_TREND_AST",
     "L5_MIN", "L10_MIN", "L5_FGA", "L5_FTA", "USAGE_RATE", "FT_RATE",
     "PPM_L5", "PPM_L10", "L5_FG_PCT", "L5_FG3_PCT", "L5_FG3M",
     "VS_OPP_AVG_PTS", "VS_OPP_AVG_REB", "VS_OPP_AVG_AST",
     "OPP_DEF_STRENGTH_PTS", "OPP_DEF_STRENGTH_REB", "OPP_DEF_STRENGTH_AST",
     "OPP_PACE", "TEAM_PACE", "L5_WIN_PCT", "L5_PLUS_MINUS"}

\* clean_outliers; df.replace acts on every numeric cell of the table
clean_outliers(df) ==
    LET d1 == SelectSeq(df, LAMBDA r : Gt(r.MIN, Q(5)))
        d2 == SelectSeq(d1, LAMBDA r : Lt(r.PTS, Q(70)))
        d3 == SelectSeq(d2, LAMBDA r : Lt(r.REB, Q(30)))
        d4 == SelectSeq(d3, LAMBDA r : Lt(r.AST, Q(25)))
        d5 == [i \in 1..Len(d4) |->
                 [d4[i] EXCEPT !.REST_DAYS = Clip(d4[i].REST_DAYS, Q(0), Q(7))]]
    IN  Tup([i \in 1..Len(d5) |->
            [c \in DOMAIN d5[i] |->
                IF c \in NumCols THEN ReplaceInf(d5[i][c]) ELSE d5[i][c]]])

\* (mutant) rows that tie on player and date in reverse file order
LessTiesReversed(a, b) ==
    \/ a.Player_ID < b.Player_ID
    \/ (a.Player_ID = b.Player_ID /\ a.GAME_DATE < b.GAME_DATE)
    \/ (a.Player_ID = b.Player_ID /\ a.GAME_DATE = b.GAME_DATE
            /\ a.src > b.src)

LessPlayerDate(a, b) ==
    \/ a.Player_ID < b.Player_ID
    \/ (a.Player_ID = b.Player_ID /\ a.GAME_DATE < b.GAME_DATE)

LessOppDate(a, b) ==
    \/ TeamOrd(a.OPPONENT) < TeamOrd(b.OPPONENT)
    \/ (a.OPPONENT = b.OPPONENT /\ a.GAME_DATE < b.GAME_DATE)

PlayerKey(r) == r.Player_ID
PlayerOppKey(r) == <<r.Player_ID, r.OPPONENT>>
OppKey(r) == r.OPPONENT
TeamKey(r) == r.TEAM

\* (mutants) a window one game too wide; a threshold one game too low
L5Wide(x) == RollingMean(Shift1(x), 6, 3)
L10Loose(x) == RollingMean(Shift1(x), 10, 4)

\* the lambdas handed to transform
L5(x) == RollingMean(Shift1(x), 5, 3)
L10(x) == RollingMean(Shift1(x), 10, 5)
L10Std(x) == RollingStd(Shift1(x), 10, 5)
SeasonAvg(x) == ExpandingMean(Shift1(x))
Opp30(x) == RollingMean(Shift1(x), 30, 5)
Pace20(x) == RollingMean(Shift1(x), 20, 5)

Tenth == Norm(1, 10)

\* pd.read_csv; src is the line of the raw log a row was read from (a ghost
\* column: no step of process_data reads it)
read_csv(rawlog) == Tup([i \in 1..Len(rawlog) |-> rawlog[i] @@ [src |-> i]])

\* process_data, lines 54-123: the sort by player and date, the derived
\* matchup columns and the player-scoped features (tiers 1 to 6)
PlayerFeatures(df0) ==
    LET s0 == SortValues(df0, LessPlayerDate)
        df == Tup([i \in 1..Len(s0) |->
                 s0[i] @@ [OPPONENT |-> get_opponent(s0[i].MATCHUP),
                           TEAM     |-> get_team(s0[i].MATCHUP),
                           IS_HOME  |-> is_home(s0[i].MATCHUP)]])
        player_group == GroupBy(df, PlayerKey)
        matchup_group == GroupBy(df, PlayerOppKey)
        L5_PTS  == Transform(df, player_group, "PTS", L5)
        L10_PTS == Transform(df, player_group, "PTS", L10)
        SEASON  == Transform(df, player_group, "PTS", SeasonAvg)
        L5_REB  == Transform(df, player_group, "REB", L5)
        L10_REB == Transform(df, player_group, "REB", L10)
        L5_AST  == Transform(df, player_group, "AST", L5)
        L10_AST == Transform(df, player_group, "AST", L10)
        PTS_STD == Transform(df, player_group, "PTS", L10Std)
        REB_STD == Transform(df, player_group, "REB", L10Std)
        AST_STD == Transform(df, player_group, "AST", L10Std)
        L5_MIN  == Transform(df, player_group, "MIN", L5)
        L10_MIN == Transform(df, player_group, "MIN", L10)
        L5_FGA  == Transform(df, player_group, "FGA", L5)
        L5_FTA  == Transform(df, player_group, "FTA", L5)
        DAYS    == GroupDiffDays(df, player_group)
        FG_PCT  == Transform(df, player_group, "FG_PCT", L5)
        FG3_PCT == Transform(df, player_group, "FG3_PCT", L5)
        FG3M    == Transform(df, player_group, "FG3M", L5)
        VS_PTS  == Transform(df, matchup_group, "PTS", SeasonAvg)
        VS_REB  == Transform(df, matchup_group, "REB", SeasonAvg)
        VS_AST  == Transform(df, matchup_group, "AST", SeasonAvg)
    IN  Tup([i \in 1..Len(df) |->
          df[i] @@
          [L5_PTS |-> L5_PTS[i], L10_PTS |-> L10_PTS[i],
           SEASON_AVG_PTS |-> SEASON[i],
           L5_REB |-> L5_REB[i], L10_REB |-> L10_REB[i],
           L5_AST |-> L5_AST[i], L10_AST |-> L10_AST[i],
           L10_PTS_STD |-> PTS_STD[i], L10_REB_STD |-> REB_STD[i],
           L10_AST_STD |-> AST_STD[i],
           RECENT_TREND_PTS |-> Sub(L5_PTS[i], L10_PTS[i]),
           RECENT_TREND_REB |-> Sub(L5_REB[i], L10_REB[i]),
           RECENT_TREND_AST |-> Sub(L5_AST[i], L10_AST[i]),
           L5_MIN |-> L5_MIN[i], L10_MIN |-> L10_MIN[i],
           L5_FGA |-> L5_FGA[i], L5_FTA |-> L5_FTA[i],
           USAGE_RATE |-> Div(L5_FGA[i], Add(L5_MIN[i], Tenth)),
           FT_RATE |-> Div(L5_FTA[i], Add(L5_MIN[i], Tenth)),
           PPM_L5 |-> Div(L5_PTS[i], Add(L5_MIN[i], Tenth)),
           PPM_L10 |-> Div(L10_PTS[i], Add(L10_MIN[i], Tenth)),
           REST_DAYS |-> Sub(DAYS[i], Q(1)),
           DAYS_SINCE_LAST |-> DAYS[i],
           IS_BACK_TO_BACK |-> IF DAYS[i] = Q(1) THEN 1 ELSE 0,
           IS_RESTED |-> IF Ge(Sub(DAYS[i], Q(1)), Q(2)) THEN 1 ELSE 0,
           L5_FG_PCT |-> FG_PCT[i], L5_FG3_PCT |-> FG3_PCT[i],
           L5_FG3M |-> FG3M[i],
           VS_OPP_AVG_PTS |-> VS_PTS[i], VS_OPP_AVG_REB |-> VS_REB[i],
           VS_OPP_AVG_AST |-> VS_AST[i]]])

\* process_data, lines 129-146: the sort by opponent and date and the
\* opponent-scoped rolling metrics (tier 7, first half)
OpponentFeatures(df0) ==
    LET df == SortValues(df0, LessOppDate)
        opp_group == GroupBy(df, OppKey)
        D_PTS == Transform(df, opp_group, "PTS", Opp30)
        D_REB == Transform(df, opp_group, "REB", Opp30)
        D_AST == Transform(df, opp_group, "AST", Opp30)
        PACE  == Transform(df, opp_group, "FGA", Pace20)
    IN  Tup([i \in 1..Len(df) |->
          df[i] @@
          [OPP_DEF_STRENGTH_PTS |-> D_PTS[i], OPP_DEF_STRENGTH_REB |-> D_REB[i],
           OPP_DEF_STRENGTH_AST |-> D_AST[i], OPP_PACE |-> PACE[i]]])

\* process_data, lines 149-168: back in player and date order, the team pace
\* and the momentum features (tiers 7 to 9)
TeamFeatures(df0) ==
    LET s0 == SortValues(df0, LessPlayerDate)
        team_group == GroupBy(s0, TeamKey)
        T_PACE == Transform(s0, team_group, "FGA", Pace20)
        df == Tup([i \in 1..Len(s0) |->
                 s0[i] @@ [WL_BINARY |-> IF s0[i].WL = "W" THEN Q(1) ELSE Q(0)]])
        player_group == GroupBy(df, PlayerKey)
        WIN == Transform(df, player_group, "WL_BINARY", L5)
        PM  == Transform(df, player_group, "PLUS_MINUS", L5)
    IN  Tup([i \in 1..Len(df) |->
          df[i] @@
          [TEAM_PACE |-> T_PACE[i], L5_WIN_PCT |-> WIN[i],
           L5_PLUS_MINUS |-> PM[i]]])

\* the table process_data holds when it calls clean_outliers (line 171)
Featurize(rawlog) ==
    TeamFeatures(OpponentFeatures(PlayerFeatures(read_csv(rawlog))))

\* lambda x: x.fillna(x.mean()) on one group's series
FillWithMean(x) == [k \in 1..Len(x) |-> FillNa(x[k], MeanOf(Valid(x)))]

\* process_data, lines 177-186: the fallbacks
FillMissing(df) ==
    LET opp_group == GroupBy(df, OppKey)
        D_PTS == Transform(df, opp_group, "OPP_DEF_STRENGTH_PTS", FillWithMean)
        D_REB == Transform(df, opp_group, "OPP_DEF_STRENGTH_REB", FillWithMean)
        D_AST == Transform(df, opp_group, "OPP_DEF_STRENGTH_AST", FillWithMean)
        PACE  == Transform(df, opp_group, "OPP_PACE", FillWithMean)
    IN  Tup([i \in 1..Len(df) |->
          [df[i] EXCEPT
             !.OPP_DEF_STRENGTH_PTS = D_PTS[i],
             !.OPP_DEF_STRENGTH_REB = D_REB[i],
             !.OPP_DEF_STRENGTH_AST = D_AST[i],
             !.OPP_PACE = PACE[i],
             !.VS_OPP_AVG_PTS = FillNa(df[i].VS_OPP_AVG_PTS, df[i].SEASON_AVG_PTS),
             !.VS_OPP_AVG_REB = FillNa(df[i].VS_OPP_AVG_REB, df[i].L10_REB),
             !.VS_OPP_AVG_AST = FillNa(df[i].VS_OPP_AVG_AST, df[i].L10_AST)]])

\* (mutant) the drop rule without the two trailing-10 features
context_features == {"REST_DAYS", "OPP_DEF_STRENGTH_PTS"}

critical_features == {"L10_PTS", "L10_MIN", "REST_DAYS", "OPP_DEF_STRENGTH_PTS"}

\* df.dropna(subset=critical_features)
DropCritical(df) ==
    SelectSeq(df, LAMBDA r : \A c \in critical_features : NotNa(r[c]))

final_cols ==
    {"GAME_DATE", "PLAYER_NAME", "MATCHUP", "TEAM", "OPPONENT",
     "IS_HOME", "REST_DAYS", "IS_BACK_TO_BACK", "IS_RESTED",
     "L5_PTS", "L10_PTS", "SEASON_AVG_PTS", "L10_PTS_STD", "RECENT_TREND_PTS",
     "L5_REB", "L10_REB", "L10_REB_STD", "RECENT_TREND_REB",
     "L5_AST", "L10_AST", "L10_AST_STD", "RECENT_TREND_AST",
     "L5_MIN", "L10_MIN", "USAGE_RATE", "FT_RATE", "PPM_L5", "PPM_L10",
     "L5_FG_PCT", "L5_FG3_PCT", "L5_FG3M",
     "VS_OPP_AVG_PTS", "VS_OPP_AVG_REB", "VS_OPP_AVG_AST",
     "OPP_DEF_STRENGTH_PTS", "OPP_DEF_STRENGTH_REB", "OPP_DEF_STRENGTH_AST",
     "OPP_PACE", "TEAM_PACE", "L5_WIN_PCT", "L5_PLUS_MINUS",
     "PTS", "REB", "AST"}

\* df[final_cols]; the ghost column src is kept beside them
SelectFinal(df) ==
    Tup([i \in 1..Len(df) |-> [c \in final_cols \cup {"src"} |-> df[i][c]]])

\* the table after the cleaning and the fallbacks (line 186)
Resolved(ft) == FillMissing(clean_outliers(ft))

\* the table process_data writes, from the table of line 168
Finish(ft) == SelectFinal(DropCritical(Resolved(ft)))

--------------------------------------------------------------------------
(* realtime_features.py *)

extract_opponent(matchup) ==
    IF matchup[2] = "vs." THEN matchup[3]
    ELSE IF matchup[2] = "@" THEN matchup[3]
    ELSE "UNK"

LessDate(a, b) == a.GAME_DATE < b.GAME_DATE

\* Series.tail(k)
TailN(x, k) == SubSeq(x, Max(1, Len(x) - k + 1), Len(x))

Column(df, col) == Tup([i \in 1..Len(df) |-> df[i][col]])

\* df[col].tail(10).mean() if len(df) >= 10 else df[col].mean()
Last10Mean(df, col) ==
    IF Len(df) >= 10 THEN MeanOf(Valid(TailN(Column(df, col), 10)))
    ELSE MeanOf(Valid(Column(df, col)))

Last10Std(df, col) ==
    IF Len(df) >= 10 THEN VarOf(Valid(TailN(Column(df, col), 10)))
    ELSE VarOf(Valid(Column(df, col)))

Last5Mean(df, col) == MeanOf(Valid(TailN(Column(df, col), 5)))

\* a Python value that may be None: <<>> is None, <<v>> is the value v
None == <<>>
Some(v) == <<v>>

\* the uniform no-data result (None, None, None, None) of
\* get_realtime_prediction_features
NoResp == <<None, None, None, None>>

\* (mutant) a threshold one game too low
FourGames == 5 - 1

\* len(recent_games_df) < 5
MinRecentGames == 5

\* calculate_realtime_features; recent_games is None or Some(table), the
\* table most recent first.  The single-key sort of at most 15 rows keeps
\* the order of rows that tie
calculate_realtime_features(recent_games, opponent, home, rest_days) ==
    IF recent_games = None \/ Len(recent_games[1]) < MinRecentGames THEN None
    ELSE Some(
    LET recent_games_df == recent_games[1]
        g0 == Tup([i \in 1..Len(recent_games_df) |->
                 recent_games_df[i] @@
                 [OPPONENT |-> extract_opponent(recent_games_df[i].MATCHUP)]])
        df == SortValues(g0, LessDate)
        L5_PTS  == Last5Mean(df, "PTS")
        L10_PTS == Last10Mean(df, "PTS")
        SEASON  == MeanOf(Valid(Column(df, "PTS")))
        L5_REB  == Last5Mean(df, "REB")
        L10_REB == Last10Mean(df, "REB")
        L5_AST  == Last5Mean(df, "AST")
        L10_AST == Last10Mean(df, "AST")
        L5_MIN  == Last5Mean(df, "MIN")
        L10_MIN == Last10Mean(df, "MIN")
        L5_FGA  == Last5Mean(df, "FGA")
        L5_FTA  == Last5Mean(df, "FTA")
        opp_games == SelectSeq(df, LAMBDA r : r.OPPONENT = opponent)
        wins == Tup([i \in 1..Len(df) |-> IF df[i].WL = "W" THEN Q(1) ELSE Q(0)])
    IN  [L5_PTS |-> L5_PTS, L10_PTS |-> L10_PTS, SEASON_AVG_PTS |-> SEASON,
         L10_PTS_STD |-> Last10Std(df, "PTS"),
         RECENT_TREND_PTS |-> Sub(L5_PTS, L10_PTS),
         L5_REB |-> L5_REB, L10_REB |-> L10_REB,
         L10_REB_STD |-> Last10Std(df, "REB"),
         RECENT_TREND_REB |-> Sub(L5_REB, L10_REB),
         L5_AST |-> L5_AST, L10_AST |-> L10_AST,
         L10_AST_STD |-> Last10Std(df, "AST"),
         RECENT_TREND_AST |-> Sub(L5_AST, L10_AST),
         L5_MIN |-> L5_MIN, L10_MIN |-> L10_MIN,
         L5_FGA |-> L5_FGA, L5_FTA |-> L5_FTA,
         USAGE_RATE |-> Div(L5_FGA, Add(L5_MIN, Tenth)),
         FT_RATE |-> Div(L5_FTA, Add(L5_MIN, Tenth)),
         PPM_L5 |-> Div(L5_PTS, Add(L5_MIN, Tenth)),
         PPM_L10 |-> Div(L10_PTS, Add(L10_MIN, Tenth)),
         L5_FG_PCT |-> Last5Mean(df, "FG_PCT"),
         L5_FG3_PCT |-> Last5Mean(df, "FG3_PCT"),
         L5_FG3M |-> Last5Mean(df, "FG3M"),
         IS_HOME |-> home,
         REST_DAYS |-> Q(Min(rest_days, 7)),
         IS_BACK_TO_BACK |-> IF rest_days = 0 THEN 1 ELSE 0,
         IS_RESTED |-> IF rest_days >= 2 THEN 1 ELSE 0,
         VS_OPP_AVG_PTS |-> IF Len(opp_games) > 0
                            THEN MeanOf(Valid(Column(opp_games, "PTS")))
                            ELSE SEASON,
         VS_OPP_AVG_REB |-> IF Len(opp_games) > 0
                            THEN MeanOf(Valid(Column(opp_games, "REB")))
                            ELSE L10_REB,
         VS_OPP_AVG_AST |-> IF Len(opp_games) > 0
                            THEN MeanOf(Valid(Column(opp_games, "AST")))
                            ELSE L10_AST,
         OPP_DEF_STRENGTH_PTS |-> Q(15),
         OPP_DEF_STRENGTH_REB |-> Norm(11, 2),
         OPP_DEF_STRENGTH_AST |-> Norm(7, 2),
         OPP_PACE |-> Last10Mean(df, "FGA"),
         TEAM_PACE |-> Last10Mean(df, "FGA"),
         L5_WIN_PCT |-> MeanOf(TailN(wins, 5)),
         L5_PLUS_MINUS |-> Last5Mean(df, "PLUS_MINUS")])

--------------------------------------------------------------------------
(* the raw game log and the lines the scrapers put in it *)

MaxIngest == 1

Players == {1, 2}
PlayerName(p) == IF p = 1 THEN "Ann Able" ELSE "Bob Baker"

\* one box score: MIN PTS REB AST FGA FTA FG_PCT FG3_PCT FG3M PLUS_MINUS WL
Box(min, pts, reb, ast, fga, fta, fg, fg3, fg3m, pm, wl) ==
    [MIN |-> Q(min), PTS |-> Q(pts), REB |-> Q(reb), AST |-> Q(ast),
     FGA |-> Q(fga), FTA |-> Q(fta), FG_PCT |-> fg, FG3_PCT |-> fg3,
     FG3M |-> Q(fg3m), PLUS_MINUS |-> Q(pm), WL |-> wl]

BigGame  == Box(36, 30, 10, 8, 20, 6, Norm(1, 2), Norm(2, 5), 4, 7, "W")
QuietGame == Box(20, 10, 4, 2, 9, 2, Norm(1, 3), Norm(1, 4), 1, -5, "L")
\* five minutes of garbage time: the Validity Filter drops it (MIN <= 5)
GarbageTime == Box(5, 0, 1, 0, 1, 0, Q(0), Q(0), 0, -2, "L")

BoxScores == {BigGame, GarbageTime}

Matchups == {<<"LAL", "vs.", "BOS">>, <<"LAL", "@", "NYK">>}
IngestDates == {2, 20}

LogLine(p, date, matchup, box) ==
    [Player_ID |-> p, PLAYER_NAME |-> PlayerName(p), GAME_DATE |-> date,
     MATCHUP |-> matchup, WL |-> box.WL,
     MIN |-> box.MIN, PTS |-> box.PTS, REB |-> box.REB, AST |-> box.AST,
     FGA |-> box.FGA, FTA |-> box.FTA, FG_PCT |-> box.FG_PCT,
     FG3_PCT |-> box.FG3_PCT, FG3M |-> box.FG3M,
     PLUS_MINUS |-> box.PLUS_MINUS]

\* the lines a scrape may append
LogLines ==
    {LogLine(p, d, m, b) :
        p \in Players, d \in IngestDates, m \in Matchups, b \in BoxScores}

\* the concrete scenario of the specification: six games of one player with
\* 20, 22, 18, 25, 19, 21 points, oldest first
ScenarioDates == <<1, 2, 4, 7, 20, 5>>
ScenarioPts == <<20, 22, 18, 19, 21, 25>>
ScenarioLog ==
    Tup([k \in 1..6 |->
        LogLine(1, ScenarioDates[k], <<"LAL", "vs.", "BOS">>,
                [QuietGame EXCEPT !.PTS = Q(ScenarioPts[k])])])

\* a log of two players: six games of player 1 at NYK on days 1 to 6, five
\* of player 2 against BOS on days 21 to 25
TwoPlayerLog ==
    Tup([k \in 1..11 |->
        IF k <= 6
        THEN LogLine(1, k, <<"LAL", "@", "NYK">>,
                     IF k % 2 = 0 THEN BigGame ELSE QuietGame)
        ELSE LogLine(2, k + 14, <<"LAL", "vs.", "BOS">>,
                     IF k % 2 = 0 THEN BigGame ELSE QuietGame)])

\* a log of four games of player 2 against BOS on days 21 to 24: one game
\* short of the history the realtime path asks for
FourGameLog ==
    Tup([k \in 1..4 |->
        LogLine(2, k + 20, <<"LAL", "vs.", "BOS">>,
                IF k % 2 = 0 THEN BigGame ELSE QuietGame)])

\* a log of ten games of player 1 on days 3 to 12, against BOS at home and
\* at NYK in turn, and the next game on a later day
TenGamesAndNext(date, matchup, box) ==
    Tup([k \in 1..11 |->
        IF k <= 10
        THEN LogLine(1, k + 2,
                     IF k % 2 = 1 THEN <<"LAL", "vs.", "BOS">>
                                  ELSE <<"LAL", "@", "NYK">>,
                     IF k % 2 = 0 THEN BigGame ELSE QuietGame)
        ELSE LogLine(1, date, matchup, box)])

\* the next game against BOS at home on day 14
ElevenGameLog == TenGamesAndNext(14, <<"LAL", "vs.", "BOS">>, QuietGame)

NextGameDates == {13, 14, 30}

\* the logs of a player with ten games and the next one
CrossLogs ==
    {TenGamesAndNext(d, m, b) :
        d \in NextGameDates, m \in Matchups, b \in {BigGame, QuietGame}}

SeedLogs == {<<>>, ScenarioLog, TwoPlayerLog, FourGameLog}

\* a player plays one game a day: a second line of the same player and date
\* is a repeated line of the same game
OneGameADay(log, line) ==
    \A j \in 1..Len(log) :
        (log[j].Player_ID = line.Player_ID /\ log[j].GAME_DATE = line.GAME_DATE)
            => log[j].MATCHUP = line.MATCHUP

--------------------------------------------------------------------------
(* the state machine *)

\* num_games=15, the default of fetch_recent_games
DefaultNumGames == 15

\* no fetch_with_retry call and no fetch_recent_games call is running
NoFetch ==
    /\ answers = <<>>
    /\ attempt = 0
    /\ calls = 0
    /\ waits = <<>>
    /\ result = "idle"
    /\ num_games = DefaultNumGames
    /\ fetched = <<>>

\* the paths of automated_pipepline.py (lines 15-20), of
\* prizepicks_scrapper.py (line 17), of realtime_features.py (lines 251-253)
\* and of train.py; os.path.join of a directory that ends in "/" and a name
DATA_DIR == "../data/"
MODELS_DIR == "../models/"
TRAINING_DATA == DATA_DIR \o "processed/training_data1.csv"
TODAYS_PROPS == DATA_DIR \o "todays_props.csv"
TOP_BETS_OUTPUT == DATA_DIR \o "top_bets.csv"
ANALYSIS_OUTPUT == DATA_DIR \o "analysis_results.csv"
ScraperOutputPath == "../data/predictions/todays_props.csv"
RealtimeTodaysProps == "../data/todays_props.csv"
RealtimeOutputPath == "../data/analysis_results.csv"

\* target_name.lower(), stat_type of ['pts', 'reb', 'ast']
Lower(t) == IF t = "PTS" THEN "pts" ELSE IF t = "REB" THEN "reb" ELSE "ast"

\* os.path.join(MODELS_DIR, f"{stat_type}_model.json")
ModelPath(t) == MODELS_DIR \o Lower(t) \o "_model.json"

Paths ==
    {TRAINING_DATA, TODAYS_PROPS, TOP_BETS_OUTPUT, ANALYSIS_OUTPUT,
     ScraperOutputPath, RealtimeTodaysProps, RealtimeOutputPath}
        \cup {ModelPath(t) : t \in {"PTS", "REB", "AST"}}

\* a disk without files: os.path.exists(p) is files[p] # None
NoFiles == [p \in Paths |-> None]

\* no run of run_full_pipeline
NoRun ==
    /\ results = <<>>
    /\ files = NoFiles
    /\ steps = <<>>
    /\ force_retrain = FALSE
    /\ returned = None

NoReq ==
    [player |-> 0, player_name |-> "", opponent |-> "UNK", is_home |-> 0,
     rest_days |-> 0, provider |-> <<>>]

Init ==
    /\ raw \in SeedLogs
    /\ appended = 0
    /\ pc = "scrape"
    /\ feat = <<>>
    /\ out = <<>>
    /\ req = NoReq
    /\ rt = None
    /\ resp = NoResp
    /\ handed = <<>>
    /\ NoFetch
    /\ NoRun
    /\ dirty = <<>>
    /\ cleaned = <<>>

\* scraper_part2.fetch_data appends game-log lines to the raw log
Ingest(line) ==
    /\ pc = "scrape"
    /\ appended < MaxIngest
    /\ OneGameADay(raw, line)
    /\ raw' = Append(raw, line)
    /\ appended' = appended + 1
    /\ UNCHANGED <<pc, feat, out, req, rt, resp, handed, dirty, cleaned>>
    /\ UNCHANGED retry_vars
    /\ UNCHANGED fetch_vars
    /\ UNCHANGED run_vars

\* features.process_data: the whole run, from read_csv of the raw log to
\* to_csv of the table; a second run reads the same raw log and writes the
\* table again
process_data ==
    /\ pc \in {"scrape", "done"}
    /\ LET ft == Featurize(raw)
       IN  feat' = ft /\ out' = Finish(ft)
    /\ pc' = IF pc = "scrape" THEN "done" ELSE "rerun"
    /\ UNCHANGED <<raw, appended, req, rt, resp, handed, dirty, cleaned>>
    /\ UNCHANGED retry_vars
    /\ UNCHANGED fetch_vars
    /\ UNCHANGED run_vars

\* datetime.now(): the day of the request; no line of the raw log is dated
\* later
Today == 30

\* the missing value of the text column WL
NoWL == "NaN"

\* the players for whom the provider lists games ahead
PlayersAhead == {1}

\* the games ahead that the provider lists for a player: today's game, not
\* yet played and without result, and a game with a result under tomorrow's
\* date
Upcoming(p) ==
    IF p \in PlayersAhead
    THEN <<[LogLine(p, Today, <<"LAL", "vs.", "BOS">>, QuietGame)
               EXCEPT !.WL = NoWL],
           LogLine(p, Today + 1, <<"LAL", "@", "NYK">>, BigGame)>>
    ELSE <<>>

\* PlayerGameLog(...).get_data_frames()[0]: the game log the provider holds
\* for player p.  The provider that fills the raw log is the one the
\* realtime path asks
ApiLog(p) == Upcoming(p) \o SelectSeq(raw, LAMBDA r : r.Player_ID = p)

\* (mutants) the filters of fetch_recent_games left out
KeepGame(r) == TRUE

\* df['WL'].notna() and df['GAME_DATE'] <= today on one record
Completed(r) == r.WL # NoWL
NotAfterToday(r) == r.GAME_DATE <= Today

\* fetch_recent_games, lines 60-77: the completed games up to today, most
\* recent first, the first n of them
RecentGames(p, n) ==
    LET played == SelectSeq(ApiLog(p), Completed)
        past == SelectSeq(played, NotAfterToday)
        log == SortValues(past, LAMBDA a, b : a.GAME_DATE > b.GAME_DATE)
    IN  SubSeq(log, 1, Min(Len(log), n))

\* the games fetch_recent_games hands over with the default num_games
ProviderLog(p) == RecentGames(p, DefaultNumGames)

\* what the provider does with one call: it answers, it times out
\* (ReadTimeout, ConnectionError) or it fails in another way
ProviderOutcomes == {"ok", "timeout", "error"}

\* the provider's answers to the successive calls of one fetch are scripted
\* in advance, MaxCalls of them
MaxCalls == 4

\* the provider that answers the first call in the given way and every
\* later call with the games
Script(first) == [k \in 1..MaxCalls |-> IF k = 1 THEN first ELSE "ok"]

\* the names a request may carry beside the players' full names: a part of
\* a full name, and a name no active player has
PartialNames == {<<"Ann", 1>>}
UnknownName == "Zed Zero"

\* find_player_id: the exact match first, then the partial match
find_player_id(player_name) ==
    IF \E p \in Players : PlayerName(p) = player_name
    THEN Some(CHOOSE p \in Players : PlayerName(p) = player_name)
    ELSE IF \E m \in PartialNames : m[1] = player_name
    THEN Some((CHOOSE m \in PartialNames : m[1] = player_name)[2])
    ELSE None

\* fetch_recent_games: one provider call, no retry; every failure is None.
\* provider is the script of the provider's answers
FetchRecentGames(player_name, provider, n) ==
    LET player_id == find_player_id(player_name)
    IN  IF player_id = None THEN None
        ELSE IF provider[1] # "ok" THEN None
        ELSE IF ApiLog(player_id[1]) = <<>> THEN None
        ELSE Some(RecentGames(player_id[1], n))

\* the call with the default num_games
fetch_recent_games(player_name, provider) ==
    FetchRecentGames(player_name, provider, DefaultNumGames)

--------------------------------------------------------------------------
(* train.py: the feature lists of the three targets *)

POINTS_FEATURES ==
    <<"L5_PTS", "L10_PTS", "SEASON_AVG_PTS", "L10_PTS_STD", "RECENT_TREND_PTS",
      "IS_HOME", "REST_DAYS", "IS_BACK_TO_BACK", "IS_RESTED",
      "L5_MIN", "L10_MIN", "USAGE_RATE", "FT_RATE", "PPM_L5", "PPM_L10",
      "L5_FG_PCT", "L5_FG3_PCT", "L5_FG3M",
      "L5_REB", "L5_AST",
      "VS_OPP_AVG_PTS", "OPP_DEF_STRENGTH_PTS", "OPP_PACE", "TEAM_PACE",
      "L5_WIN_PCT", "L5_PLUS_MINUS">>

REBOUNDS_FEATURES ==
    <<"L5_REB", "L10_REB", "L10_REB_STD", "RECENT_TREND_REB",
      "IS_HOME", "REST_DAYS", "IS_BACK_TO_BACK", "IS_RESTED",
      "L5_MIN", "L10_MIN", "USAGE_RATE",
      "L5_PTS", "L5_AST",
      "VS_OPP_AVG_REB", "OPP_DEF_STRENGTH_REB", "OPP_PACE", "TEAM_PACE",
      "L5_WIN_PCT", "L5_PLUS_MINUS">>

ASSISTS_FEATURES ==
    <<"L5_AST", "L10_AST", "L10_AST_STD", "RECENT_TREND_AST",
      "IS_HOME", "REST_DAYS", "IS_BACK_TO_BACK", "IS_RESTED",
      "L5_MIN", "L10_MIN", "USAGE_RATE",
      "L5_PTS", "L5_REB",
      "VS_OPP_AVG_AST", "OPP_DEF_STRENGTH_AST", "OPP_PACE", "TEAM_PACE",
      "L5_WIN_PCT", "L5_PLUS_MINUS">>

--------------------------------------------------------------------------
(* realtime_features.py: get_realtime_prediction_features *)

\* the key lists of get_realtime_prediction_features, lines 207-233
pts_keys ==
    <<"L5_PTS", "L10_PTS", "SEASON_AVG_PTS", "L10_PTS_STD", "RECENT_TREND_PTS",
      "IS_HOME", "REST_DAYS", "IS_BACK_TO_BACK", "IS_RESTED",
      "L5_MIN", "L10_MIN", "USAGE_RATE", "FT_RATE", "PPM_L5", "PPM_L10",
      "L5_FG_PCT", "L5_FG3_PCT", "L5_FG3M",
      "L5_REB", "L5_AST",
      "VS_OPP_AVG_PTS", "OPP_DEF_STRENGTH_PTS", "OPP_PACE", "TEAM_PACE",
      "L5_WIN_PCT", "L5_PLUS_MINUS">>

reb_keys ==
    <<"L5_REB", "L10_REB", "L10_REB_STD", "RECENT_TREND_REB",
      "IS_HOME", "REST_DAYS", "IS_BACK_TO_BACK", "IS_RESTED",
      "L5_MIN", "L10_MIN", "USAGE_RATE",
      "L5_PTS", "L5_AST",
      "VS_OPP_AVG_REB", "OPP_DEF_STRENGTH_REB", "OPP_PACE", "TEAM_PACE",
      "L5_WIN_PCT", "L5_PLUS_MINUS">>

\* (mutant) the assists mapping built with the keys of the rebounds mapping
KeysOfRebounds == reb_keys

ast_keys ==
    <<"L5_AST", "L10_AST", "L10_AST_STD", "RECENT_TREND_AST",
      "IS_HOME", "REST_DAYS", "IS_BACK_TO_BACK", "IS_RESTED",
      "L5_MIN", "L10_MIN", "USAGE_RATE",
      "L5_PTS", "L5_REB",
      "VS_OPP_AVG_AST", "OPP_DEF_STRENGTH_AST", "OPP_PACE", "TEAM_PACE",
      "L5_WIN_PCT", "L5_PLUS_MINUS">>

\* {k: features[k] for k in keys}: a dict keeps its keys in insertion order,
\* so the mapping is the sequence of its (key, value) pairs
SelectKeys(features, keys) ==
    [i \in 1..Len(keys) |-> <<keys[i], features[keys[i]]>>]

\* get_realtime_prediction_features, from the features calculated
Respond(recent_games, features) ==
    IF recent_games = None THEN NoResp
    ELSE IF features = None THEN NoResp
    ELSE <<Some(SelectKeys(features[1], pts_keys)),
           Some(SelectKeys(features[1], reb_keys)),
           Some(SelectKeys(features[1], ast_keys)),
           recent_games>>

\* get_realtime_prediction_features (lines 187-235)
get_realtime_prediction_features(player_name, opponent, home, rest_days, provider) ==
    LET recent_games == fetch_recent_games(player_name, provider)
        features == IF recent_games = None THEN None
                    ELSE calculate_realtime_features(recent_games, opponent,
                                                     home, rest_days)
    IN  Respond(recent_games, features)

Opponents == {"BOS", "NYK"}
RestInputs == {-1, 0, 10}

Request(player_name, opponent, home, rest_days, provider) ==
    [player_name |-> player_name, opponent |-> opponent, is_home |-> home,
     rest_days |-> rest_days, provider |-> provider]

\* the requests: every player against every opponent with every rest-days
\* value while the provider answers, a partial and an unknown name, and a
\* request on which the provider fails
Requests ==
    {Request(PlayerName(p), o, IF o = "BOS" THEN 1 ELSE 0, r, Script("ok")) :
        p \in Players, o \in Opponents, r \in RestInputs}
    \cup {Request(m[1], "BOS", 1, 0, Script("ok")) : m \in PartialNames}
    \cup {Request(UnknownName, "BOS", 1, 0, Script("ok"))}
    \cup {Request(PlayerName(1), "BOS", 1, 0, Script(f)) :
            f \in ProviderOutcomes \ {"ok"}}

\* pd.DataFrame([mapping]): the columns are the keys of the mapping, in its
\* order
Keys(mapping) == [i \in 1..Len(mapping) |-> mapping[i][1]]

\* a feature table handed to the model of a target
Hand(site, target, columns) ==
    [site |-> site, target |-> target, columns |-> columns]

Targets == <<"PTS", "REB", "AST">>

\* dashboard.py main, lines 263-312: the three mappings go to the three models
DashboardHands(response) ==
    IF response[1] = None \/ response[4] = None THEN <<>>
    ELSE [t \in 1..3 |-> Hand("dashboard", Targets[t], Keys(response[t][1]))]

\* one request of the dashboard: get_realtime_prediction_features, then the
\* three predictions.  The request is served from the provider alone, before
\* or after the batch run
Realtime(r) ==
    /\ pc \in {"scrape", "done"}
    /\ LET player_id == find_player_id(r.player_name)
           recent_games == fetch_recent_games(r.player_name, r.provider)
           features == IF recent_games = None THEN None
                       ELSE calculate_realtime_features(recent_games,
                                r.opponent, r.is_home, r.rest_days)
       IN  /\ req' = [player |-> IF player_id = None THEN 0 ELSE player_id[1],
                      player_name |-> r.player_name, opponent |-> r.opponent,
                      is_home |-> r.is_home, rest_days |-> r.rest_days,
                      provider |-> r.provider]
           /\ rt' = features
           /\ resp' = get_realtime_prediction_features(r.player_name,
                          r.opponent, r.is_home, r.rest_days, r.provider)
           /\ handed' = DashboardHands(Respond(recent_games, features))
    /\ pc' = "served"
    /\ UNCHANGED <<raw, appended, feat, out, dirty, cleaned>>
    /\ UNCHANGED retry_vars
    /\ UNCHANGED fetch_vars
    /\ UNCHANGED run_vars

\* the models run_realtime_prediction loads when every model file exists
AllModels == {"PTS", "REB", "AST"}

\* recent_games.tail(5)[stat_type].mean() (line 322) on the table that
\* fetch_recent_games returned, most recent first
l5_avg(recent_games, stat_type) ==
    MeanOf(Valid(Column(TailN(recent_games, 5), stat_type)))

\* the loop of run_realtime_prediction over the rows of the props table
\* (lines 286-338): a row without a model or without features is skipped
RECURSIVE PredictRows(_, _)
PredictRows(props_df, models) ==
    IF props_df = <<>> THEN <<>>
    ELSE LET row == Head(props_df)
             response == get_realtime_prediction_features(row.player, "N/A",
                             1, 1, Script("ok"))
             t == CHOOSE k \in 1..3 : Targets[k] = row.stat_mapped
         IN  (IF row.stat_mapped \notin models \/ response[t] = None
              THEN <<>>
              ELSE <<[player |-> row.player, stat |-> row.stat_mapped,
                      l5_avg |-> l5_avg(response[4][1], row.stat_mapped),
                      last_game |-> response[4][1][1].GAME_DATE]>>)
             \o PredictRows(Tail(props_df), models)

\* the rows of the props table: a player and the statistic of the line
Props ==
    {[player |-> PlayerName(p), stat_mapped |-> Targets[t]] :
        p \in Players, t \in 1..3}

\* run_realtime_prediction, one row of the props table (lines 286-316): the
\* features are fetched with opponent "N/A", home True (1) and one rest day,
\* and the mapping of the row's statistic goes to its model
run_realtime_prediction(row) ==
    /\ pc \in {"scrape", "done"}
    /\ LET player_id == find_player_id(row.player)
           recent_games == fetch_recent_games(row.player, Script("ok"))
           features == IF recent_games = None THEN None
                       ELSE calculate_realtime_features(recent_games,
                                "N/A", 1, 1)
           response == Respond(recent_games, features)
           t == CHOOSE k \in 1..3 : Targets[k] = row.stat_mapped
       IN  /\ req' = [player |-> IF player_id = None THEN 0 ELSE player_id[1],
                      player_name |-> row.player, opponent |-> "N/A",
                      is_home |-> 1, rest_days |-> 1,
                      provider |-> Script("ok")]
           /\ rt' = features
           /\ resp' = response
           /\ handed' = IF response[t] = None THEN <<>>
                        ELSE <<Hand("run_realtime_prediction",
                                    row.stat_mapped, Keys(response[t][1]))>>
    /\ results' = PredictRows(<<row>>, AllModels)
    /\ pc' = "predicted"
    /\ UNCHANGED <<raw, appended, feat, out, dirty, cleaned>>
    /\ UNCHANGED retry_vars
    /\ UNCHANGED fetch_vars
    /\ UNCHANGED <<files, steps, force_retrain, returned>>

\* train.py: X = df[features] of the feature table for the three targets
\* (lines 196, 298-308); every name of features is a column of the table,
\* and the columns of df[features] are features
train_model ==
    /\ pc = "done"
    /\ \A f \in {POINTS_FEATURES, REBOUNDS_FEATURES, ASSISTS_FEATURES} :
           \A i \in 1..Len(f) : f[i] \in final_cols
    /\ handed' = <<Hand("train", "PTS", POINTS_FEATURES),
                   Hand("train", "REB", REBOUNDS_FEATURES),
                   Hand("train", "AST", ASSISTS_FEATURES)>>
    /\ pc' = "trained"
    /\ UNCHANGED <<raw, appended, feat, out, req, rt, resp, dirty, cleaned>>
    /\ UNCHANGED retry_vars
    /\ UNCHANGED fetch_vars
    /\ UNCHANGED run_vars

\* inference.py predict_player: the table typed in, lines 35-44, goes to the
\* points model, line 47
predict_player_columns ==
    <<"L5_PTS", "L10_PTS", "SEASON_AVG_PTS", "L5_REB", "L5_AST", "REST_DAYS",
      "IS_HOME">>

predict_player ==
    /\ pc \in {"scrape", "done"}
    /\ handed' = <<Hand("predict_player", "PTS", predict_player_columns)>>
    /\ pc' = "predicted"
    /\ UNCHANGED <<raw, appended, feat, out, req, rt, resp, dirty, cleaned>>
    /\ UNCHANGED retry_vars
    /\ UNCHANGED fetch_vars
    /\ UNCHANGED run_vars

Next ==
    \/ \E line \in LogLines : Ingest(line)
    \/ process_data
    \/ \E r \in Requests : Realtime(r)
    \/ \E row \in Props : run_realtime_prediction(row)
    \/ train_model
    \/ predict_player

Spec == Init /\ [][Next]_vars

\* the batch run and the requests on the log of a player with ten games and
\* the next one
InitCross ==
    /\ raw \in CrossLogs
    /\ appended = 0
    /\ pc = "scrape"
    /\ feat = <<>>
    /\ out = <<>>
    /\ req = NoReq
    /\ rt = None
    /\ resp = NoResp
    /\ handed = <<>>
    /\ NoFetch
    /\ NoRun
    /\ dirty = <<>>
    /\ cleaned = <<>>

NextCross ==
    \/ process_data
    \/ \E r \in Requests : Realtime(r)
    \/ \E row \in Props : run_realtime_prediction(row)
    \/ train_model
    \/ predict_player

SpecCross == InitCross /\ [][NextCross]_vars

--------------------------------------------------------------------------
(* automated_pipepline.py: one run of run_full_pipeline *)

\* a file: the run that wrote it ("earlier" or "this"), its age in days,
\* its rows, and the run that wrote the file its rows were computed from
File(run, age, rows, source) ==
    Some([run |-> run, age |-> age, rows |-> rows, source |-> source])

\* the props an earlier run left and the props the scraper finds now
StaleProps == <<[player |-> PlayerName(1), stat_mapped |-> "PTS"]>>
ScrapedProps ==
    <<[player |-> PlayerName(1), stat_mapped |-> "REB"],
      [player |-> PlayerName(2), stat_mapped |-> "AST"]>>

\* the model files an earlier run left: each missing or some days old
ModelAges == {None, Some(7), Some(8)}
ModelShelves == {<<a, b, c>> : a \in ModelAges, b \in ModelAges, c \in ModelAges}

\* the disk an earlier run left
Disk(props, analysis, training, shelf) ==
    [p \in Paths |->
        IF p = TODAYS_PROPS /\ props THEN File("earlier", 1, StaleProps, "earlier")
        ELSE IF p = ANALYSIS_OUTPUT /\ analysis
             THEN File("earlier", 1,
                       <<[player |-> PlayerName(1), stat |-> "PTS",
                          l5_avg |-> Q(20), last_game |-> 7]>>, "earlier")
        ELSE IF p = TRAINING_DATA /\ training
             THEN File("earlier", 1, <<>>, "earlier")
        ELSE IF \E k \in 1..3 : p = ModelPath(Targets[k]) /\ shelf[k] # None
             THEN LET k == CHOOSE i \in 1..3 : p = ModelPath(Targets[i])
                  IN  File("earlier", shelf[k][1], <<>>, "earlier")
        ELSE None]

Disks ==
    {Disk(props, analysis, training, shelf) :
        props \in BOOLEAN, analysis \in BOOLEAN, training \in BOOLEAN,
        shelf \in ModelShelves}

PipelineLogs == {ScenarioLog, FourGameLog}

InitPipeline ==
    /\ raw \in PipelineLogs
    /\ files \in Disks
    /\ force_retrain \in BOOLEAN
    /\ results = <<>>
    /\ steps = <<>>
    /\ returned = None
    /\ pc = "pipeline"
    /\ appended = 0
    /\ feat = <<>>
    /\ out = <<>>
    /\ req = NoReq
    /\ rt = None
    /\ resp = NoResp
    /\ handed = <<>>
    /\ dirty = <<>>
    /\ cleaned = <<>>
    /\ NoFetch

\* what the scraper meets: props on the board, no props, or an exception
\* (driver, page, or writing the file)
ScrapeOutcomes == {"props", "none", "error"}

\* step 1, scrape_prizepicks of the pipeline around scrape_prizepicks of the
\* scraper: found props are written to the scraper's OUTPUT_PATH and the
\* step succeeds; without props the step succeeds when TODAYS_PROPS exists
scrape_prizepicks(outcome) ==
    /\ pc = "pipeline"
    /\ LET disk == IF outcome = "props"
                   THEN [files EXCEPT ![ScraperOutputPath] =
                            File("this", 0, ScrapedProps, "this")]
                   ELSE files
           ret == IF outcome = "props" THEN TRUE
                  ELSE disk[TODAYS_PROPS] # None
       IN  /\ files' = disk
           /\ steps' = Append(steps, <<"scrape", ret>>)
           /\ pc' = IF ret THEN "freshness" ELSE "returned"
           /\ returned' = IF ret THEN None ELSE Some(FALSE)
    /\ UNCHANGED <<raw, appended, feat, out, req, rt, resp, handed, dirty,
                   cleaned>>
    /\ UNCHANGED retry_vars
    /\ UNCHANGED fetch_vars
    /\ UNCHANGED <<results, force_retrain>>

\* (mutant) a model is old from seven days on
OneDayLess == 7 - 1

\* MODEL_MAX_AGE_DAYS = 7
MODEL_MAX_AGE_DAYS == 7

\* check_model_freshness: a model file is missing or age_days >
\* MODEL_MAX_AGE_DAYS
check_model_freshness(disk) ==
    \E t \in AllModels :
        \/ disk[ModelPath(t)] = None
        \/ disk[ModelPath(t)][1].age > MODEL_MAX_AGE_DAYS

\* (mutant) a failed training ends the run
AbortOnFailure(ret) == IF ret THEN "predict" ELSE "returned"

\* run_full_pipeline after train_models returned (lines 215-220): the next
\* step is the predictions whatever train_models returned
AfterTraining(ret) == "predict"

\* step 2, the decision: needs_training = force_retrain or
\* check_model_freshness()
needs_training ==
    /\ pc = "freshness"
    /\ pc' = IF force_retrain \/ check_model_freshness(files) THEN "train"
             ELSE "predict"
    /\ UNCHANGED <<raw, appended, feat, out, req, rt, resp, handed, dirty,
                   cleaned>>
    /\ UNCHANGED retry_vars
    /\ UNCHANGED fetch_vars
    /\ UNCHANGED run_vars

\* how many of the three models train_all_models saves before an exception;
\* three is the run without exception
TrainOutcomes == 0..3

\* step 2, train_models: False without training data; the models are saved
\* one target after the other
train_models(saved) ==
    /\ pc = "train"
    /\ LET trained == IF files[TRAINING_DATA] = None THEN 0 ELSE saved
           ret == trained = 3
       IN  /\ files' = [p \in Paths |->
                          IF \E k \in 1..trained : p = ModelPath(Targets[k])
                          THEN File("this", 0, <<>>, files[TRAINING_DATA][1].run)
                          ELSE files[p]]
           /\ steps' = Append(steps, <<"train", ret>>)
           /\ pc' = AfterTraining(ret)
    /\ UNCHANGED <<raw, appended, feat, out, req, rt, resp, handed, dirty,
                   cleaned>>
    /\ UNCHANGED retry_vars
    /\ UNCHANGED fetch_vars
    /\ UNCHANGED <<results, force_retrain, returned>>

\* run_realtime_prediction on the files: False without props file or without
\* any model; the results are saved, and True returned, when there are any
LoadedModels(disk) == {t \in AllModels : disk[ModelPath(t)] # None}

PredictionsOf(disk) ==
    IF disk[RealtimeTodaysProps] = None \/ LoadedModels(disk) = {} THEN <<>>
    ELSE PredictRows(disk[RealtimeTodaysProps][1].rows, LoadedModels(disk))

\* step 3, generate_predictions: runs run_realtime_prediction, drops what it
\* returns, and succeeds when ANALYSIS_OUTPUT exists
generate_predictions ==
    /\ pc = "predict"
    /\ \E rows \in {PredictionsOf(files)} :
           /\ results' = rows
           /\ files' = IF rows = <<>> THEN files
                        ELSE [files EXCEPT ![RealtimeOutputPath] =
                                 File("this", 0, rows,
                                      files[RealtimeTodaysProps][1].run)]
           /\ steps' = steps \o <<<<"run_realtime_prediction", rows # <<>>>>,
                                  <<"predict", files'[ANALYSIS_OUTPUT] # None>>>>
           /\ pc' = IF files'[ANALYSIS_OUTPUT] # None THEN "pick"
                    ELSE "returned"
           /\ returned' = IF files'[ANALYSIS_OUTPUT] # None THEN None
                          ELSE Some(FALSE)
    /\ UNCHANGED <<raw, appended, feat, out, req, rt, resp, handed, dirty,
                   cleaned>>
    /\ UNCHANGED retry_vars
    /\ UNCHANGED fetch_vars
    /\ UNCHANGED force_retrain

\* what pick_best_bets meets: predictions with an edge of at least
\* MIN_EDGE_THRESHOLD, predictions below it, or an exception
PickOutcomes == {"strong", "weak", "error"}

\* step 4, pick_best_bets: reads ANALYSIS_OUTPUT and writes the rows with
\* enough edge to TOP_BETS_OUTPUT
pick_best_bets(outcome) ==
    /\ pc = "pick"
    /\ LET ret == files[ANALYSIS_OUTPUT] # None /\ outcome # "error"
       IN  /\ files' = IF ret
                       THEN [files EXCEPT ![TOP_BETS_OUTPUT] =
                                File("this", 0,
                                     IF outcome = "strong"
                                     THEN files[ANALYSIS_OUTPUT][1].rows
                                     ELSE <<>>,
                                     files[ANALYSIS_OUTPUT][1].run)]
                       ELSE files
           /\ steps' = Append(steps, <<"pick", ret>>)
           /\ returned' = Some(ret)
    /\ pc' = "returned"
    /\ UNCHANGED <<raw, appended, feat, out, req, rt, resp, handed, dirty,
                   cleaned>>
    /\ UNCHANGED retry_vars
    /\ UNCHANGED fetch_vars
    /\ UNCHANGED <<results, force_retrain>>

NextPipeline ==
    \/ \E outcome \in ScrapeOutcomes : scrape_prizepicks(outcome)
    \/ needs_training
    \/ \E saved \in TrainOutcomes : train_models(saved)
    \/ generate_predictions
    \/ \E outcome \in PickOutcomes : pick_best_bets(outcome)

SpecPipeline == InitPipeline /\ [][NextPipeline]_vars

--------------------------------------------------------------------------
(* realtime_features.py: fetch_recent_games called on its own *)

\* seventeen games of player 1 on days 1 to 17, in the file by odd days
\* first
SeventeenGameLog ==
    Tup([k \in 1..17 |->
        LogLine(1, IF k <= 9 THEN 2 * k - 1 ELSE 2 * (k - 9),
                IF k % 3 = 0 THEN <<"LAL", "vs.", "BOS">>
                             ELSE <<"LAL", "@", "NYK">>,
                IF k % 2 = 0 THEN BigGame ELSE QuietGame)])

FetchLogs == SeedLogs \cup {SeventeenGameLog, ElevenGameLog}

\* the values of num_games
NumGamesInputs == {3, 5, DefaultNumGames}

\* the names asked for
FetchNames ==
    {PlayerName(p) : p \in Players} \cup {m[1] : m \in PartialNames}
        \cup {UnknownName}

FetchCalls ==
    {[player_name |-> n, provider |-> Script(f)] :
        n \in FetchNames, f \in ProviderOutcomes}

InitFetch ==
    /\ raw \in FetchLogs
    /\ num_games \in NumGamesInputs
    /\ fetched = <<>>
    /\ NoRun
    /\ pc = "fetch_recent"
    /\ appended = 0
    /\ feat = <<>>
    /\ out = <<>>
    /\ req = NoReq
    /\ rt = None
    /\ resp = NoResp
    /\ handed = <<>>
    /\ dirty = <<>>
    /\ cleaned = <<>>
    /\ answers = <<>>
    /\ attempt = 0
    /\ calls = 0
    /\ waits = <<>>
    /\ result = "idle"

\* one call of fetch_recent_games
FetchRecent(c) ==
    /\ pc = "fetch_recent"
    /\ LET player_id == find_player_id(c.player_name)
       IN  req' = [NoReq EXCEPT
                      !.player = IF player_id = None THEN 0 ELSE player_id[1],
                      !.player_name = c.player_name,
                      !.provider = c.provider]
    /\ fetched' = FetchRecentGames(c.player_name, c.provider, num_games)
    /\ pc' = "fetched"
    /\ UNCHANGED <<raw, appended, feat, out, rt, resp, handed, dirty, cleaned>>
    /\ UNCHANGED retry_vars
    /\ UNCHANGED num_games
    /\ UNCHANGED run_vars

NextFetch == \E c \in FetchCalls : FetchRecent(c)

SpecFetch == InitFetch /\ [][NextFetch]_vars

\* clean_outliers on a table of its own: the tables it may be handed
MaxDirty == 2

\* one row: the four filtered statistics, the rest days, one more numeric
\* column and one column that is not numeric
DirtyRow(min, pts, reb, ast, rest, ppm) ==
    [PLAYER_NAME |-> "Ann Able", MIN |-> min, PTS |-> pts, REB |-> reb,
     AST |-> ast, REST_DAYS |-> rest, PPM_L5 |-> ppm]

\* a row just inside every threshold and the rows that differ from it in one
\* cell: on a threshold, missing, out of the rest range or infinite
DirtyRows ==
    {DirtyRow(Q(6), Q(69), Q(29), Q(24), Q(3), Q(1)),
     DirtyRow(Q(5), Q(69), Q(29), Q(24), Q(3), Q(1)),
     DirtyRow(NaN, Q(69), Q(29), Q(24), Q(3), Q(1)),
     DirtyRow(PosInf, Q(69), Q(29), Q(24), Q(3), Q(1)),
     DirtyRow(Q(6), Q(70), Q(29), Q(24), Q(3), Q(1)),
     DirtyRow(Q(6), NaN, Q(29), Q(24), Q(3), Q(1)),
     DirtyRow(Q(6), Q(69), Q(30), Q(24), Q(3), Q(1)),
     DirtyRow(Q(6), Q(69), Q(29), Q(25), Q(3), Q(1)),
     DirtyRow(Q(6), Q(69), Q(29), Q(24), Q(-1), Q(1)),
     DirtyRow(Q(6), Q(69), Q(29), Q(24), Q(0), Q(1)),
     DirtyRow(Q(6), Q(69), Q(29), Q(24), Q(7), Q(1)),
     DirtyRow(Q(6), Q(69), Q(29), Q(24), Q(10), Q(1)),
     DirtyRow(Q(6), Q(69), Q(29), Q(24), NaN, Q(1)),
     DirtyRow(Q(6), Q(69), Q(29), Q(24), PosInf, Q(1)),
     DirtyRow(Q(6), Q(69), Q(29), Q(24), Q(3), PosInf),
     DirtyRow(Q(6), Q(69), Q(29), Q(24), Q(3), NegInf)}

InitFilter ==
    /\ dirty \in UNION {[1..n -> DirtyRows] : n \in 0..MaxDirty}
    /\ cleaned = <<>>
    /\ pc = "filter"
    /\ raw = <<>>
    /\ appended = 0
    /\ feat = <<>>
    /\ out = <<>>
    /\ req = NoReq
    /\ rt = None
    /\ resp = NoResp
    /\ handed = <<>>
    /\ NoFetch
    /\ NoRun

\* one call of clean_outliers
CleanOutliers ==
    /\ pc = "filter"
    /\ cleaned' = clean_outliers(dirty)
    /\ pc' = "filtered"
    /\ UNCHANGED <<raw, appended, feat, out, req, rt, resp, handed, dirty>>
    /\ UNCHANGED retry_vars
    /\ UNCHANGED fetch_vars
    /\ UNCHANGED run_vars

NextFilter == CleanOutliers

SpecFilter == InitFilter /\ [][NextFilter]_vars

--------------------------------------------------------------------------
(* scraper.py, scraper_part2.py: fetch_with_retry *)

\* retries=3, the default every call of fetch_with_retry uses
retries == 3

LinearWait(n) == 2 * (n + 1)

\* wait_time = 2 ** (attempt + 1)
wait_time(n) == 2 ^ (n + 1)

InitRetry ==
    /\ answers \in [1..MaxCalls -> ProviderOutcomes]
    /\ attempt = 0
    /\ calls = 0
    /\ waits = <<>>
    /\ result = "running"
    /\ num_games = DefaultNumGames
    /\ fetched = <<>>
    /\ NoRun
    /\ raw = <<>>
    /\ appended = 0
    /\ pc = "fetch"
    /\ feat = <<>>
    /\ out = <<>>
    /\ req = NoReq
    /\ rt = None
    /\ resp = NoResp
    /\ handed = <<>>
    /\ dirty = <<>>
    /\ cleaned = <<>>

\* the loop is in its body: range(retries) has an attempt left
InLoop == pc = "fetch" /\ result = "running" /\ attempt < retries

\* PlayerGameLog answers: the frame is returned (lines 18-23)
CallReturns ==
    /\ InLoop
    /\ calls < MaxCalls /\ answers[calls + 1] = "ok"
    /\ calls' = calls + 1
    /\ result' = "frame"
    /\ UNCHANGED <<answers, attempt, waits>>
    /\ UNCHANGED pipeline_vars
    /\ UNCHANGED fetch_vars
    /\ UNCHANGED run_vars

\* ReadTimeout or ConnectionError: sleep wait_time, next attempt; after the
\* last attempt the loop ends and the empty table is returned (lines 25-36)
CallTimesOut ==
    /\ InLoop
    /\ calls < MaxCalls /\ answers[calls + 1] = "timeout"
    /\ calls' = calls + 1
    /\ waits' = Append(waits, wait_time(attempt))
    /\ attempt' = attempt + 1
    /\ result' = IF attempt + 1 < retries THEN "running" ELSE "empty"
    /\ UNCHANGED answers
    /\ UNCHANGED pipeline_vars
    /\ UNCHANGED fetch_vars
    /\ UNCHANGED run_vars

\* any other exception: the empty table is returned at once (lines 31-34)
CallFails ==
    /\ InLoop
    /\ calls < MaxCalls /\ answers[calls + 1] = "error"
    /\ calls' = calls + 1
    /\ result' = "empty"
    /\ UNCHANGED <<answers, attempt, waits>>
    /\ UNCHANGED pipeline_vars
    /\ UNCHANGED fetch_vars
    /\ UNCHANGED run_vars

NextRetry == CallReturns \/ CallTimesOut \/ CallFails

\* the function runs until it returns
SpecRetry == InitRetry /\ [][NextRetry]_vars /\ WF_vars(NextRetry)

--------------------------------------------------------------------------
(* vocabulary of the properties, defined on the raw log alone *)

Done == pc = "done"

\* line b comes before line a in the date-ordered timeline of a's player
\* (lines of one date in file order)
Before(b, a) ==
    /\ raw[b].Player_ID = raw[a].Player_ID
    /\ \/ raw[b].GAME_DATE < raw[a].GAME_DATE
       \/ (raw[b].GAME_DATE = raw[a].GAME_DATE /\ b < a)

\* the prior games of line a, and how many there are
Prior(a) == {b \in 1..Len(raw) : Before(b, a)}
NPrior(a) == Cardinality(Prior(a))

\* the k most recent of a set P of lines of one player
MostRecent(P, k) == {b \in P : Cardinality({c \in P : Before(b, c)}) < k}

\* the lines of P oldest first
OldestFirst(P) ==
    [k \in 1..Cardinality(P) |->
        CHOOSE b \in P : Cardinality({c \in P : Before(c, b)}) = k - 1]

RECURSIVE SumOver(_, _)
SumOver(P, col) ==
    IF P = {} THEN Q(0)
    ELSE LET b == CHOOSE x \in P : TRUE
         IN  Add(raw[b][col], SumOver(P \ {b}, col))

\* the arithmetic mean of column col over the lines P of the raw log
MeanOver(P, col) == Div(SumOver(P, col), Q(Cardinality(P)))

Srcs(table) == {table[i].src : i \in 1..Len(table)}

\* the Validity Filter's rule on one record
Plausible(r) ==
    Gt(r.MIN, Q(5)) /\ Lt(r.PTS, Q(70)) /\ Lt(r.REB, Q(30)) /\ Lt(r.AST, Q(25))

Window5Cols == {"L5_PTS", "L5_REB", "L5_AST", "L5_MIN", "L5_FGA", "L5_FTA",
                "L5_FG_PCT", "L5_FG3_PCT", "L5_FG3M", "L5_WIN_PCT",
                "L5_PLUS_MINUS"}
Window10Cols == {"L10_PTS", "L10_REB", "L10_AST", "L10_MIN"}
Window10StdCols == {"L10_PTS_STD", "L10_REB_STD", "L10_AST_STD"}
MatchupCols == {"VS_OPP_AVG_PTS", "VS_OPP_AVG_REB", "VS_OPP_AVG_AST"}
TrendCols == {"RECENT_TREND_PTS", "RECENT_TREND_REB", "RECENT_TREND_AST"}
RatioCols == {"USAGE_RATE", "FT_RATE", "PPM_L5", "PPM_L10"}

\* the player-scoped rolling, expanding and matchup features
PlayerScopedCols ==
    Window5Cols \cup Window10Cols \cup Window10StdCols \cup MatchupCols
        \cup TrendCols \cup RatioCols \cup {"SEASON_AVG_PTS"}

\* the raw log with the statistics of line j altered: every number moved by
\* one and the result flipped; player, date and matchup are kept
AlterStats(log, j) ==
    [log EXCEPT ![j] =
        [c \in DOMAIN log[j] |->
            IF c \in StatCols THEN Add(log[j][c], Q(1))
            ELSE IF c = "WL" THEN (IF log[j][c] = "W" THEN "L" ELSE "W")
            ELSE log[j][c]]]

--------------------------------------------------------------------------
(* C1 *)

\* C1: leakage invariant of the batch path.  For every row of the table of
\* line 168 and every line of the raw log that is not one of the row's prior
\* games (the row's own game, a later game of the player, a game of another
\* player), altering the statistics of that line, date kept, leaves every
\* player-scoped rolling, expanding and matchup feature of the row unchanged:
\* the features are a function of the player's prior games only.
C1_NoSameGameLeakage ==
    Done =>
        \A j \in 1..Len(raw) :
            LET alt == Featurize(AlterStats(raw, j))
            IN  \A i \in 1..Len(feat) :
                    (j \notin Prior(feat[i].src)) =>
                        /\ alt[i].src = feat[i].src
                        /\ \A c \in PlayerScopedCols : alt[i][c] = feat[i][c]

\* a row with at least five prior games whose own game is in the raw log
\* and whose trailing means are defined
C1_Witness ==
    /\ Done
    /\ \E i \in 1..Len(feat) :
          /\ NPrior(feat[i].src) >= 5
          /\ NotNa(feat[i].L10_PTS)
          /\ NotNa(feat[i].VS_OPP_AVG_PTS)
          /\ feat[i].PTS # feat[i].L5_PTS

--------------------------------------------------------------------------
(* C2 *)

\* the raw log with the statistics of line j, minutes apart, moved by one:
\* a line the Validity Filter drops for its minutes is still dropped
AlterBoxScore(log, j) ==
    [log EXCEPT ![j] =
        [c \in DOMAIN log[j] |->
            IF c \in StatCols \ {"MIN"} THEN Add(log[j][c], Q(1))
            ELSE log[j][c]]]

\* C2: the Validity Filter runs before the calculator and the aggregators.
\* A line of the raw log that the filter drops contributes to no value of any
\* row of the output table: with the box score of such a line altered (the
\* line still dropped), process_data writes the same table.
C2_DroppedRecordContributesNothing ==
    Done =>
        \A j \in 1..Len(raw) :
            (~Plausible(raw[j]) /\ ~Plausible(AlterBoxScore(raw, j)[j])) =>
                Finish(Featurize(AlterBoxScore(raw, j))) = out

--------------------------------------------------------------------------
(* C3 *)

\* C3: definedness thresholds.  For a row with n prior games every window-5
\* statistic is defined exactly when n >= 3, every window-10 mean exactly
\* when n >= 5 and the expanding mean exactly when n >= 1; an undefined value
\* is the missing marker, not zero.
C3_DefinednessThresholds ==
    Done =>
        \A i \in 1..Len(feat) :
            LET n == NPrior(feat[i].src)
            IN  /\ \A c \in Window5Cols : NotNa(feat[i][c]) <=> n >= 3
                /\ \A c \in Window10Cols : NotNa(feat[i][c]) <=> n >= 5
                /\ NotNa(feat[i].SEASON_AVG_PTS) <=> n >= 1
                /\ \A c \in Window5Cols \cup Window10Cols \cup {"SEASON_AVG_PTS"} :
                       ~NotNa(feat[i][c]) => feat[i][c] = NaN /\ feat[i][c] # Q(0)

\* one timeline shows both sides of each threshold: rows with 0, 2, 3, 4
\* and 5 prior games
C3_Witness ==
    /\ Done
    /\ \E p \in Players :
          \A n \in {0, 2, 3, 4, 5} :
              \E i \in 1..Len(feat) :
                  feat[i].Player_ID = p /\ NPrior(feat[i].src) = n

--------------------------------------------------------------------------
(* C4 *)

--------------------------------------------------------------------------
(* C5 *)

\* C5: first-game invariant.  The first game of every player's timeline has
\* every rolling, expanding and matchup feature undefined and is not a row of
\* the final table; no row of the final table has fewer than 5 prior games
\* in its player's timeline.
C5_FirstGameInvariant ==
    Done =>
        /\ \A i \in 1..Len(feat) :
               NPrior(feat[i].src) = 0 =>
                   /\ \A c \in PlayerScopedCols : feat[i][c] = NaN
                   /\ feat[i].src \notin Srcs(out)
        /\ \A i \in 1..Len(out) : NPrior(out[i].src) >= 5

\* a first game that passes the Validity Filter, beside a table that has rows
C5_Witness ==
    /\ Done
    /\ Len(out) > 0
    /\ \E i \in 1..Len(feat) :
          NPrior(feat[i].src) = 0 /\ Plausible(raw[feat[i].src])

--------------------------------------------------------------------------
(* C6 *)

\* C6: every row of the final table has a defined value for each critical
\* feature; a row of the table after the fallbacks that misses one is
\* dropped, and the rows kept carry the values they had after the fallbacks
\* (nothing is imputed).
C6_CriticalFeaturesDefined ==
    Done =>
        LET res == Resolved(feat)
        IN  /\ \A i \in 1..Len(out) :
                   /\ \A c \in {"L10_PTS", "L10_MIN", "REST_DAYS",
                                "OPP_DEF_STRENGTH_PTS"} : NotNa(out[i][c])
                   /\ \E k \in 1..Len(res) :
                          /\ res[k].src = out[i].src
                          /\ \A c \in DOMAIN out[i] : out[i][c] = res[k][c]
            /\ \A k \in 1..Len(res) :
                   (\E c \in {"L10_PTS", "L10_MIN", "REST_DAYS",
                              "OPP_DEF_STRENGTH_PTS"} : ~NotNa(res[k][c]))
                       => res[k].src \notin Srcs(out)

\* after the fallbacks a row has its trailing-10 means but no defensive
\* strength of the opponent: the row is dropped, beside rows that are kept
C6_Witness ==
    /\ Done
    /\ Len(out) > 0
    /\ \E k \in 1..Len(Resolved(feat)) :
          LET r == Resolved(feat)[k]
          IN  /\ NotNa(r.L10_PTS) /\ NotNa(r.L10_MIN) /\ NotNa(r.REST_DAYS)
              /\ IsNaN(r.OPP_DEF_STRENGTH_PTS)

--------------------------------------------------------------------------
(* C7 *)

\* the prior games of line a against the opponent of line a
OppPrior(a) ==
    {b \in Prior(a) :
        get_opponent(raw[b].MATCHUP) = get_opponent(raw[a].MATCHUP)}

\* the games of the requesting player against the requested opponent
ReqOppGames ==
    {b \in 1..Len(raw) :
        /\ raw[b].Player_ID = req.player
        /\ extract_opponent(raw[b].MATCHUP) = req.opponent}

ReqGames == {b \in 1..Len(raw) : raw[b].Player_ID = req.player}

\* C7: matchup fallback ordering, batch and realtime.  With at least one
\* prior game against the opponent VS_OPP_AVG_<stat> is the mean of the stat
\* over those games only; with none VS_OPP_AVG_PTS is SEASON_AVG_PTS (the mean
\* over all prior games), VS_OPP_AVG_REB is L10_REB and VS_OPP_AVG_AST is
\* L10_AST.
C7_MatchupFallback ==
    /\ pc \in {"done", "served"} =>
           LET res == Resolved(feat)
           IN  \A i \in 1..Len(res) :
                   LET r == res[i]
                       P == OppPrior(r.src)
                   IN  IF P # {}
                       THEN /\ r.VS_OPP_AVG_PTS = MeanOver(P, "PTS")
                            /\ r.VS_OPP_AVG_REB = MeanOver(P, "REB")
                            /\ r.VS_OPP_AVG_AST = MeanOver(P, "AST")
                       ELSE /\ r.VS_OPP_AVG_PTS = r.SEASON_AVG_PTS
                            /\ NPrior(r.src) > 0 =>
                                   r.VS_OPP_AVG_PTS = MeanOver(Prior(r.src), "PTS")
                            /\ r.VS_OPP_AVG_REB = r.L10_REB
                            /\ r.VS_OPP_AVG_AST = r.L10_AST
    /\ (pc = "served" /\ rt # None) =>
           LET f == rt[1]
               P == ReqOppGames
           IN  IF P # {}
               THEN /\ f.VS_OPP_AVG_PTS = MeanOver(P, "PTS")
                    /\ f.VS_OPP_AVG_REB = MeanOver(P, "REB")
                    /\ f.VS_OPP_AVG_AST = MeanOver(P, "AST")
               ELSE /\ f.VS_OPP_AVG_PTS = f.SEASON_AVG_PTS
                    /\ f.VS_OPP_AVG_PTS = MeanOver(ReqGames, "PTS")
                    /\ f.VS_OPP_AVG_REB = f.L10_REB
                    /\ f.VS_OPP_AVG_AST = f.L10_AST

\* both paths take the fallback and both take the matchup mean: the final
\* table has a row with no prior game against its opponent and a row with
\* one, and the realtime request is for an opponent the player never met
C7_Witness ==
    /\ pc = "served"
    /\ rt # None
    /\ ReqOppGames = {}
    /\ rt[1].VS_OPP_AVG_PTS # Q(0)
    /\ \E i \in 1..Len(out) :
          OppPrior(out[i].src) = {} /\ out[i].VS_OPP_AVG_PTS # Q(0)
    /\ \E i \in 1..Len(out) : OppPrior(out[i].src) # {}

--------------------------------------------------------------------------
(* C8 *)

\* the row of the table of line 168 read from line a of the raw log
FeatRow(a) == feat[CHOOSE k \in 1..Len(feat) : feat[k].src = a]

RECURSIVE SumCells(_, _, _)
SumCells(table, I, col) ==
    IF I = {} THEN Q(0)
    ELSE LET k == CHOOSE x \in I : TRUE
         IN  Add(table[k][col], SumCells(table, I \ {k}, col))

\* the rows of the table of line 168 that pass the Validity Filter, play
\* opponent opp and have a defined rolling value in column col
DefinedFor(col, opp) ==
    {k \in 1..Len(feat) :
        /\ feat[k].OPPONENT = opp
        /\ Plausible(raw[feat[k].src])
        /\ NotNa(feat[k][col])}

\* the mean of the defined rolling values of column col for opponent opp
RollingValueMean(col, opp) ==
    LET I == DefinedFor(col, opp)
    IN  IF I = {} THEN NaN
        ELSE Div(SumCells(feat, I, col), Q(Cardinality(I)))

\* the opponent-context features and the statistic under each
OppContextCols ==
    {<<"OPP_DEF_STRENGTH_PTS", "PTS">>, <<"OPP_DEF_STRENGTH_REB", "REB">>,
     <<"OPP_DEF_STRENGTH_AST", "AST">>, <<"OPP_PACE", "FGA">>}

\* C8 as stated: every opponent- and team-context feature whose rolling value
\* is undefined for a row is filled with the mean of the underlying statistic
\* over all records of that opponent (team, for TEAM_PACE) in the dataset.
C8_FilledWithStatisticMean ==
    Done =>
        LET res == Resolved(feat)
        IN  \A i \in 1..Len(res) :
                LET r == res[i]
                    f == FeatRow(r.src)
                IN  /\ \A cs \in OppContextCols :
                           IsNaN(f[cs[1]]) =>
                               r[cs[1]] =
                                   MeanOver({b \in 1..Len(raw) :
                                       get_opponent(raw[b].MATCHUP) = r.OPPONENT},
                                       cs[2])
                    /\ IsNaN(f.TEAM_PACE) =>
                           r.TEAM_PACE =
                               MeanOver({b \in 1..Len(raw) :
                                   get_team(raw[b].MATCHUP) = r.TEAM}, "FGA")

\* C8, amended: each of OPP_DEF_STRENGTH_PTS/REB/AST and OPP_PACE whose
\* rolling value is undefined for a row is filled with the mean of the defined
\* rolling values of that feature over the rows that pass the Validity Filter
\* and play the same opponent, and stays undefined when there is none; a
\* defined value is kept; TEAM_PACE is never filled.
C8_FilledWithRollingValueMean ==
    Done =>
        LET res == Resolved(feat)
        IN  \A i \in 1..Len(res) :
                LET r == res[i]
                    f == FeatRow(r.src)
                IN  /\ \A cs \in OppContextCols :
                           r[cs[1]] = IF IsNaN(f[cs[1]])
                                      THEN RollingValueMean(cs[1], r.OPPONENT)
                                      ELSE f[cs[1]]
                    /\ r.TEAM_PACE = f.TEAM_PACE

\* a row of the final table whose defensive strength was undefined and is
\* filled, and a row after the fallbacks whose TEAM_PACE is still undefined
C8_Witness ==
    /\ Done
    /\ \E i \in 1..Len(out) :
          /\ IsNaN(FeatRow(out[i].src).OPP_DEF_STRENGTH_PTS)
          /\ NotNa(out[i].OPP_DEF_STRENGTH_PTS)
    /\ \E k \in 1..Len(Resolved(feat)) : IsNaN(Resolved(feat)[k].TEAM_PACE)

--------------------------------------------------------------------------
(* C9 *)

\* the positions of the rows of the input that satisfy the filter's rule,
\* in input order
KeptRows ==
    SelectSeq([i \in 1..Len(dirty) |-> i], LAMBDA i : Plausible(dirty[i]))

\* w is v clipped to the closed range [0, 7]; a missing v stays missing
ClippedTo07(v, w) ==
    IF IsNaN(v) THEN IsNaN(w)
    ELSE /\ Ge(w, Q(0)) /\ Le(w, Q(7))
         /\ Lt(v, Q(0)) => w = Q(0)
         /\ Gt(v, Q(7)) => w = Q(7)
         /\ (Ge(v, Q(0)) /\ Le(v, Q(7))) => w = v

\* C9 as stated: the result is exactly the rows with MIN > 5, PTS < 70,
\* REB < 30 and AST < 25 (a row with a missing one is dropped), in their
\* original order, REST_DAYS clipped to [0, 7] and no other field changed.
C9_FilterAndClipOnly ==
    pc = "filtered" =>
        /\ Len(cleaned) = Len(KeptRows)
        /\ \A k \in 1..Len(KeptRows) :
               LET r == dirty[KeptRows[k]]
                   c == cleaned[k]
               IN  /\ DOMAIN c = DOMAIN r
                   /\ ClippedTo07(r.REST_DAYS, c.REST_DAYS)
                   /\ \A col \in DOMAIN r \ {"REST_DAYS"} : c[col] = r[col]

\* C9, amended: the result is exactly the rows with MIN > 5, PTS < 70,
\* REB < 30 and AST < 25 (a row with a missing one is dropped), in their
\* original order, REST_DAYS clipped to [0, 7], every infinite numeric value
\* replaced by the missing marker, and no other field changed.
C9_FilterClipAndReplaceInf ==
    pc = "filtered" =>
        /\ Len(cleaned) = Len(KeptRows)
        /\ \A k \in 1..Len(KeptRows) :
               LET r == dirty[KeptRows[k]]
                   c == cleaned[k]
               IN  /\ DOMAIN c = DOMAIN r
                   /\ ClippedTo07(r.REST_DAYS, c.REST_DAYS)
                   /\ \A col \in DOMAIN r \ {"REST_DAYS"} :
                          c[col] = IF col \in NumCols /\ IsInf(r[col])
                                   THEN NaN ELSE r[col]

\* a table of two rows, the first dropped for a missing value, the second
\* kept with its rest days clipped from 10 to 7
C9_Witness ==
    /\ pc = "filtered"
    /\ Len(dirty) = 2
    /\ IsNaN(dirty[1].PTS)
    /\ dirty[2].REST_DAYS = Q(10)
    /\ Len(cleaned) = 1
    /\ cleaned[1].REST_DAYS = Q(7)

--------------------------------------------------------------------------
(* C10 *)

\* C10: rest-context consistency.  In every row of the final table REST_DAYS
\* lies in [0, 7], IS_BACK_TO_BACK is 1 exactly when REST_DAYS is 0 and
\* IS_RESTED is 1 exactly when REST_DAYS is at least 2, also when a player
\* has two records of one date.
C10_RestContextConsistent ==
    Done =>
        \A i \in 1..Len(out) :
            /\ Ge(out[i].REST_DAYS, Q(0)) /\ Le(out[i].REST_DAYS, Q(7))
            /\ out[i].IS_BACK_TO_BACK = 1 <=> out[i].REST_DAYS = Q(0)
            /\ out[i].IS_RESTED = 1 <=> Ge(out[i].REST_DAYS, Q(2))

--------------------------------------------------------------------------
(* C11 *)

\* C11: realtime rest clipping.  Whenever calculate_realtime_features returns
\* features, REST_DAYS is the rest-days input clipped to [0, 7]: 10 gives 7
\* and a negative value gives 0.
C11_RealtimeRestClipped ==
    (pc = "served" /\ rt # None) =>
        rt[1].REST_DAYS = Q(Max(0, Min(req.rest_days, 7)))

--------------------------------------------------------------------------
(* C12 *)

\* the games the provider hands to the request: the player's lines of the
\* raw log when the provider answers, none when it fails
Fetched == IF req.provider[1] = "ok" THEN ReqGames ELSE {}

\* C12: insufficient history.  With fewer than 5 fetched games (none
\* included) calculate_realtime_features returns no features and
\* get_realtime_prediction_features the uniform no-data result; a result
\* that is not the no-data result has all four parts, from at least 5 games.
C12_InsufficientHistory ==
    pc = "served" =>
        /\ Cardinality(Fetched) < 5 => (rt = None /\ resp = NoResp)
        /\ resp # NoResp =>
               /\ Cardinality(Fetched) >= 5
               /\ \A k \in 1..4 : resp[k] # None

\* a request for a player with exactly four games, and the provider answers
C12_Witness ==
    /\ pc = "served"
    /\ req.provider[1] = "ok"
    /\ Cardinality(Fetched) = 4
    /\ resp = NoResp

--------------------------------------------------------------------------
(* C13 *)

\* C13: realtime contract selection.  Whenever
\* get_realtime_prediction_features returns feature mappings, the keys of the
\* points, rebounds and assists mapping are, name for name and in the same
\* order, POINTS_FEATURES, REBOUNDS_FEATURES and ASSISTS_FEATURES of train.py,
\* and every key carries the value calculated for it.
C13_RealtimeContractSelection ==
    (pc = "served" /\ resp # NoResp) =>
        /\ Keys(resp[1][1]) = POINTS_FEATURES
        /\ Keys(resp[2][1]) = REBOUNDS_FEATURES
        /\ Keys(resp[3][1]) = ASSISTS_FEATURES
        /\ \A t \in 1..3 : \A i \in 1..Len(resp[t][1]) :
               resp[t][1][i][2] = rt[1][resp[t][1][i][1]]

\* a request that is answered with the three mappings
C13_Witness ==
    /\ pc = "served"
    /\ resp # NoResp
    /\ Len(resp[1][1]) = 26 /\ Len(resp[2][1]) = 19 /\ Len(resp[3][1]) = 19

--------------------------------------------------------------------------
(* C14 *)

\* the prior games of line a as the provider hands them over: most recent
\* first
PriorGames(a) ==
    LET P == Prior(a)
        n == Cardinality(P)
        old == OldestFirst(P)
    IN  Tup([k \in 1..n |-> raw[old[n + 1 - k]]])

\* the days between line a and the prior game of its player, less one
RestBefore(a) ==
    LET P == Prior(a)
        last == CHOOSE b \in P : \A c \in P : c = b \/ Before(c, b)
    IN  raw[a].GAME_DATE - raw[last].GAME_DATE - 1

\* the realtime mapping for the game of line a, from its prior games and its
\* own opponent, home flag and rest days
RealtimeFor(a) ==
    calculate_realtime_features(Some(PriorGames(a)),
                                get_opponent(raw[a].MATCHUP),
                                is_home(raw[a].MATCHUP), RestBefore(a))

\* the feature names that both paths produce
SharedCols ==
    final_cols \cap
        DOMAIN calculate_realtime_features(Some(ElevenGameLog), "BOS", 1, 1)[1]

\* the shared features whose value in row r of the final table differs from
\* the realtime mapping of the same game
CrossDiff(r) == {c \in SharedCols : r[c] # RealtimeFor(r.src)[1][c]}

\* C14: cross-path equivalence.  For every row of the final table whose
\* player has exactly ten prior games, every feature that both paths produce
\* (OPP_PACE, TEAM_PACE and OPP_DEF_STRENGTH_* among them) has the same value
\* in the row as in the mapping calculate_realtime_features builds from the
\* same ten games, opponent, home flag and rest days.
C14_CrossPathEquivalence ==
    Done =>
        \A i \in 1..Len(out) :
            NPrior(out[i].src) = 10 => CrossDiff(out[i]) = {}

--------------------------------------------------------------------------
(* C15 *)

\* the registry list of a target
Registry(target) ==
    CASE target = "PTS" -> POINTS_FEATURES
      [] target = "REB" -> REBOUNDS_FEATURES
      [] target = "AST" -> ASSISTS_FEATURES

\* C15: every table a call site hands to the model of a target (train.py,
\* the dashboard, run_realtime_prediction, predict_player of inference.py)
\* has the names of the target's registry list as its columns, in the
\* registry's order.
C15_CallSitesPassRegistry ==
    \A i \in 1..Len(handed) :
        handed[i].columns = Registry(handed[i].target)

--------------------------------------------------------------------------
(* C16 *)

LeagueContextCols ==
    {"OPP_DEF_STRENGTH_PTS", "OPP_DEF_STRENGTH_REB", "OPP_DEF_STRENGTH_AST",
     "OPP_PACE", "TEAM_PACE"}

\* the mapping of one fixed request on one fixed table of games
ReferenceMapping ==
    calculate_realtime_features(Some(ElevenGameLog), "BOS", 1, 1)[1]

\* C16: realtime league-context constants.  In every mapping
\* calculate_realtime_features returns, OPP_DEF_STRENGTH_PTS/REB/AST, OPP_PACE
\* and TEAM_PACE are fixed constants: they have the value they have for any
\* other table of games and any other opponent.
C16_LeagueContextConstants ==
    (pc = "served" /\ rt # None) =>
        \A c \in LeagueContextCols : rt[1][c] = ReferenceMapping[c]

--------------------------------------------------------------------------
(* C17 *)

\* the calls made so far that ended in a transient failure
Transients == {k \in 1..calls : answers[k] = "timeout"}

\* the state of a fetch agrees with the bounded fail-soft retry
RetryInv ==
    /\ calls <= retries
    /\ Len(waits) = Cardinality(Transients)
    /\ \A k \in 1..Len(waits) : waits[k] = 2 ^ k
    /\ result \in {"running", "frame", "empty"}
    /\ result = "running" =>
           calls < retries /\ \A k \in 1..calls : answers[k] = "timeout"
    /\ result = "frame" =>
           /\ answers[calls] = "ok"
           /\ \A k \in 1..(calls - 1) : answers[k] = "timeout"
    /\ result = "empty" =>
           /\ calls >= 1
           /\ \A k \in 1..calls : answers[k] # "ok"
           /\ \A k \in 1..(calls - 1) : answers[k] = "timeout"
           /\ answers[calls] = "timeout" => calls = retries

\* C17: bounded retry with fail-soft.  For every sequence of provider
\* outcomes fetch_with_retry returns after at most retries (3) provider
\* calls; it has waited 2, 4, 8 seconds after the 1st, 2nd and 3rd transient
\* failure; it returns the frame of the first call that succeeds, and the
\* empty table when every call it made has failed.
C17_BoundedRetryFailSoft ==
    /\ []RetryInv
    /\ <>(result \in {"frame", "empty"})

\* three transient failures: three calls, waits of 2, 4 and 8 seconds, and
\* the empty table
C17_Witness ==
    /\ calls = 3
    /\ waits = <<2, 4, 8>>
    /\ result = "empty"

--------------------------------------------------------------------------
(* C18 *)

\* the provider's script has a call among the first retries that answers,
\* and only transient failures before it
AnswersWithinRetries(provider) ==
    \E k \in 1..retries :
        /\ provider[k] = "ok"
        /\ \A j \in 1..(k - 1) : provider[j] = "timeout"

\* C18: realtime transient-failure handling.  When the provider answers one
\* of the first retries calls of the realtime path and only timeouts or
\* connection errors come before that answer, the request of a player with
\* at least five games is answered with the player's games: one transient
\* failure followed by a success yields the games, and the no-data result
\* comes only after the retries are exhausted.
C18_RealtimeRetriesTransient ==
    (/\ pc = "served"
     /\ req.player # 0
     /\ Cardinality(ReqGames) >= 5
     /\ AnswersWithinRetries(req.provider)) =>
        /\ resp # NoResp
        /\ resp[4] = Some(ProviderLog(req.player))

--------------------------------------------------------------------------
(* C19 *)

\* what happened to a request: the name is not resolved, the provider fails,
\* the provider holds no game of the player, or the games are fetched
RequestCase(player_name, provider) ==
    LET player_id == find_player_id(player_name)
    IN  IF player_id = None THEN "entity not found"
        ELSE IF provider[1] # "ok" THEN "provider unavailable"
        ELSE IF ProviderLog(player_id[1]) = <<>> THEN "no recent games"
        ELSE "games"

\* C19: distinguishable failure signals.  Two requests of which one hits an
\* unresolved name, one a resolved player without games and one a provider
\* failure get different results from fetch_recent_games and from
\* get_realtime_prediction_features.
C19_DistinctFailureSignals ==
    pc = "served" =>
        \A r \in Requests :
            (/\ RequestCase(req.player_name, req.provider) # "games"
             /\ RequestCase(r.player_name, r.provider) # "games"
             /\ RequestCase(r.player_name, r.provider)
                    # RequestCase(req.player_name, req.provider)) =>
                /\ fetch_recent_games(r.player_name, r.provider)
                       # fetch_recent_games(req.player_name, req.provider)
                /\ get_realtime_prediction_features(r.player_name,
                       r.opponent, r.is_home, r.rest_days, r.provider) # resp

--------------------------------------------------------------------------
(* C20 *)

\* rows i and j of the table are records of one player and one date
TiedRows(table, i, j) ==
    /\ raw[table[i].src].Player_ID = raw[table[j].src].Player_ID
    /\ table[i].GAME_DATE = table[j].GAME_DATE

\* the order of the table is fixed by the raw log: by player, then by date,
\* and records of one player, date and opponent in the order of the file
FixedOrder(table) ==
    \A i, j \in 1..Len(table) :
        i < j =>
            \/ raw[table[i].src].Player_ID < raw[table[j].src].Player_ID
            \/ /\ raw[table[i].src].Player_ID = raw[table[j].src].Player_ID
               /\ table[i].GAME_DATE < table[j].GAME_DATE
            \/ /\ TiedRows(table, i, j)
               /\ table[i].OPPONENT = table[j].OPPONENT
                      => table[i].src < table[j].src

--------------------------------------------------------------------------
(* C21 *)

\* line a of the raw log passes the Validity Filter and its row has every
\* critical feature defined once the fallbacks are applied
Surviving(a) ==
    /\ Plausible(raw[a])
    /\ NotNa(FeatRow(a).L10_PTS)
    /\ NotNa(FeatRow(a).L10_MIN)
    /\ NotNa(FeatRow(a).REST_DAYS)
    /\ \/ NotNa(FeatRow(a).OPP_DEF_STRENGTH_PTS)
       \/ DefinedFor("OPP_DEF_STRENGTH_PTS", FeatRow(a).OPPONENT) # {}

\* C21: batch output rows.  The final table has exactly one row for each
\* record of the raw log that passes the Validity Filter and has all critical
\* features defined, no other row, and its rows are in non-decreasing
\* (player, game date) order.
C21_OutputRows ==
    Done =>
        /\ Srcs(out) = {a \in 1..Len(raw) : Surviving(a)}
        /\ Cardinality(Srcs(out)) = Len(out)
        /\ \A i \in 1..Len(out) :
               /\ out[i].GAME_DATE = raw[out[i].src].GAME_DATE
               /\ out[i].PLAYER_NAME = raw[out[i].src].PLAYER_NAME
               /\ out[i].PTS = raw[out[i].src].PTS
        /\ \A i, j \in 1..Len(out) :
               i < j =>
                   \/ raw[out[i].src].Player_ID < raw[out[j].src].Player_ID
                   \/ /\ raw[out[i].src].Player_ID = raw[out[j].src].Player_ID
                      /\ out[i].GAME_DATE <= out[j].GAME_DATE

\* a table with rows of two players, beside a record the Validity Filter
\* drops and a plausible record without its critical features
C21_Witness ==
    /\ Done
    /\ \E i, j \in 1..Len(out) :
           raw[out[i].src].Player_ID # raw[out[j].src].Player_ID
    /\ \E a \in 1..Len(raw) : ~Plausible(raw[a])
    /\ \E a \in 1..Len(raw) : Plausible(raw[a]) /\ ~Surviving(a)

--------------------------------------------------------------------------
(* C22 *)

\* the trend features with the two rolling means each is the difference of
TrendOf ==
    {<<"RECENT_TREND_PTS", "L5_PTS", "L10_PTS">>,
     <<"RECENT_TREND_REB", "L5_REB", "L10_REB">>,
     <<"RECENT_TREND_AST", "L5_AST", "L10_AST">>}

\* C22: trend definedness in the batch path.  RECENT_TREND_<stat> of a row is
\* defined exactly when L5_<stat> and L10_<stat> are both defined, and is then
\* their difference; a row with 3 or 4 prior games has a defined L5 mean and
\* an undefined trend, not a trend computed against zero.
C22_TrendDefinedness ==
    Done =>
        \A i \in 1..Len(feat) :
            \A t \in TrendOf :
                LET trend == feat[i][t[1]]
                    l5 == feat[i][t[2]]
                    l10 == feat[i][t[3]]
                IN  /\ NotNa(trend) <=> (NotNa(l5) /\ NotNa(l10))
                    /\ NotNa(trend) => Add(trend, l10) = l5
                    /\ NPrior(feat[i].src) \in {3, 4} =>
                           /\ NotNa(l5)
                           /\ trend = NaN
                           /\ trend # l5

\* rows with 3 and with 4 prior games beside a row with a defined trend
\* that is not zero
C22_Witness ==
    /\ Done
    /\ \E i \in 1..Len(feat) : NPrior(feat[i].src) = 3
    /\ \E i \in 1..Len(feat) : NPrior(feat[i].src) = 4
    /\ \E i \in 1..Len(feat) :
           NotNa(feat[i].RECENT_TREND_PTS) /\ feat[i].RECENT_TREND_PTS # Q(0)

--------------------------------------------------------------------------
(* C23 *)

OppScopedCols ==
    {"OPP_DEF_STRENGTH_PTS", "OPP_DEF_STRENGTH_REB", "OPP_DEF_STRENGTH_AST",
     "OPP_PACE"}

\* line b is a record against the opponent of line a, dated strictly earlier
EarlierSameOpponent(b, a) ==
    /\ get_opponent(raw[b].MATCHUP) = get_opponent(raw[a].MATCHUP)
    /\ raw[b].GAME_DATE < raw[a].GAME_DATE

\* C23: opponent-scoped leakage guard.  Before the fallback, the values of
\* OPP_DEF_STRENGTH_PTS/REB/AST and OPP_PACE of a row are a function of the
\* records against the same opponent that are dated strictly earlier than
\* the row: altering the statistics of any other line of the raw log, a
\* record of another player from the same game among them, leaves the four
\* values unchanged.
C23_OpponentScopedLeakageGuard ==
    Done =>
        \A j \in 1..Len(raw) :
            LET alt == Featurize(AlterStats(raw, j))
            IN  \A i \in 1..Len(feat) :
                    ~EarlierSameOpponent(j, feat[i].src) =>
                        /\ alt[i].src = feat[i].src
                        /\ \A c \in OppScopedCols : alt[i][c] = feat[i][c]

--------------------------------------------------------------------------
(* C24 *)

\* the raw log with the points of line j moved by one
AlterPts(log, j) == [log EXCEPT ![j].PTS = Add(log[j].PTS, Q(1))]

\* the row of a final table read from line a of the raw log
RowOf(table, a) == table[CHOOSE k \in 1..Len(table) : table[k].src = a]

\* C24: the fallback does not leak the target.  The OPP_DEF_STRENGTH_PTS of
\* a row of the final table, fallback applied, stays as it is when the row's
\* own PTS is altered to another value that passes the Validity Filter, and
\* when the PTS of a record dated later than the row is altered.
C24_FallbackDoesNotLeakTarget ==
    Done =>
        \A i \in 1..Len(out) :
            \A j \in 1..Len(raw) :
                (/\ \/ j = out[i].src
                    \/ raw[j].GAME_DATE > out[i].GAME_DATE
                 /\ Plausible(raw[j])
                 /\ Plausible(AlterPts(raw, j)[j])) =>
                    LET alt == Finish(Featurize(AlterPts(raw, j)))
                    IN  /\ out[i].src \in Srcs(alt)
                        /\ RowOf(alt, out[i].src).OPP_DEF_STRENGTH_PTS
                               = out[i].OPP_DEF_STRENGTH_PTS

--------------------------------------------------------------------------
(* C25 *)

\* the positions in the log the provider holds for the requested player of
\* the completed games dated no later than today
CompletedGames ==
    {k \in 1..Len(ApiLog(req.player)) :
        /\ ApiLog(req.player)[k].WL \in {"W", "L"}
        /\ ApiLog(req.player)[k].GAME_DATE <= Today}

\* C25: fetch_recent_games.  For a resolved player with games the result has
\* at most num_games records, all of them completed (win or loss present)
\* and dated no later than today, most recent first, and they are exactly
\* the num_games most recent completed games of the fetched log (all of them
\* when there are fewer).
C25_FetchRecentGames ==
    (pc = "fetched" /\ fetched # None) =>
        LET games == fetched[1]
            log == ApiLog(req.player)
        IN  /\ Len(games) = Min(num_games, Cardinality(CompletedGames))
            /\ \A i \in 1..Len(games) :
                   /\ games[i].WL \in {"W", "L"}
                   /\ games[i].GAME_DATE <= Today
                   /\ \E k \in CompletedGames : log[k] = games[i]
            /\ \A i, j \in 1..Len(games) :
                   i < j => /\ games[i].GAME_DATE >= games[j].GAME_DATE
                            /\ games[i] # games[j]
            /\ \A k \in CompletedGames :
                   \/ \E i \in 1..Len(games) : games[i] = log[k]
                   \/ \A i \in 1..Len(games) :
                          log[k].GAME_DATE <= games[i].GAME_DATE

\* a log with more completed games than num_games, beside a game without
\* result and a game dated after today
C25_Witness ==
    /\ pc = "fetched"
    /\ fetched # None
    /\ Len(fetched[1]) = num_games
    /\ Cardinality(CompletedGames) > num_games
    /\ Len(ApiLog(req.player)) > Cardinality(CompletedGames) + 1

--------------------------------------------------------------------------
(* C26 *)

\* the first k rows of a table
HeadN(x, k) == SubSeq(x, 1, Min(Len(x), k))

\* the window fetch_recent_games returned for the player of the request
FetchedWindow == ProviderLog(req.player)

\* C26: run_realtime_prediction.  The l5_avg reported for a prop is the mean
\* of the statistic over the player's five most recent games of the fetched
\* window, the games L5_<stat> is computed from, for every window of 5 to 15
\* games.
C26_L5AvgOverMostRecentFive ==
    \A i \in 1..Len(results) :
        (pc = "predicted" /\ Len(FetchedWindow) \in 5..DefaultNumGames) =>
            /\ results[i].l5_avg =
                   MeanOf(Valid(Column(HeadN(FetchedWindow, 5),
                                       results[i].stat)))
            /\ results[i].l5_avg = rt[1]["L5_" \o results[i].stat]

--------------------------------------------------------------------------
(* C27 *)

\* the steps run so far, and what a step returned
StepNames == {steps[i][1] : i \in 1..Len(steps)}
Returned(step, ret) == \E i \in 1..Len(steps) : steps[i] = <<step, ret>>

\* the place of a step in the order scrape, train, predict, pick
StepRank(step) ==
    CASE step = "scrape" -> 1
      [] step = "train" -> 2
      [] step = "run_realtime_prediction" -> 3
      [] step = "predict" -> 3
      [] step = "pick" -> 4

\* C27: run_full_pipeline.  The steps run in the order scrape, optional
\* train, predict, pick, each at most once; predict runs only after scrape
\* returned success, pick only after predict returned success; the run
\* returns True only if scrape, predict and pick all returned success; a
\* failed training never ends the run.
C27_StepOrdering ==
    /\ \A i, j \in 1..Len(steps) :
           i < j => /\ StepRank(steps[i][1]) <= StepRank(steps[j][1])
                    /\ steps[i][1] # steps[j][1]
    /\ StepNames \cap {"train", "predict"} # {} => Returned("scrape", TRUE)
    /\ "pick" \in StepNames => Returned("predict", TRUE)
    /\ returned = Some(TRUE) =>
           /\ Returned("scrape", TRUE)
           /\ Returned("predict", TRUE)
           /\ Returned("pick", TRUE)
    /\ (steps # <<>> /\ steps[Len(steps)][1] = "train") =>
           (pc = "predict" /\ returned = None)

\* a run that returned True after a failed training
C27_Witness ==
    /\ returned = Some(TRUE)
    /\ Returned("train", FALSE)
    /\ Len(steps) = 5

--------------------------------------------------------------------------
(* C28 *)

\* a model file is missing or older than seven days
MissingOrOld ==
    \E t \in {"PTS", "REB", "AST"} :
        \/ files["../models/" \o Lower(t) \o "_model.json"] = None
        \/ files["../models/" \o Lower(t) \o "_model.json"][1].age > 7

\* C28: the retraining decision.  Training runs exactly when force_retrain
\* is set or at least one of the three model files is missing or older than
\* seven days; with all three present and at most seven days old and
\* force_retrain not set, training is skipped.  (The model files are as the
\* earlier run left them until train_models has run.)
C28_RetrainingDecision ==
    /\ pc = "train" => (force_retrain \/ MissingOrOld)
    /\ (pc = "predict" /\ "train" \notin StepNames) =>
           ~(force_retrain \/ MissingOrOld)
    /\ "train" \in StepNames => pc \in {"predict", "pick", "returned"}

\* training skipped with the three model files exactly seven days old
C28_Witness ==
    /\ pc = "predict"
    /\ "train" \notin StepNames
    /\ \A t \in AllModels : files[ModelPath(t)][1].age = 7

--------------------------------------------------------------------------
(* C29 *)

\* C29: fresh predictions.  Whenever run_full_pipeline returns True, the
\* predictions file pick_best_bets read was written by
\* run_realtime_prediction in this run; a run in which
\* run_realtime_prediction returns False never returns True.
C29_FreshPredictions ==
    /\ returned = Some(TRUE) =>
           /\ files[ANALYSIS_OUTPUT][1].run = "this"
           /\ files[TOP_BETS_OUTPUT][1].source = "this"
    /\ Returned("run_realtime_prediction", FALSE) => returned # Some(TRUE)

--------------------------------------------------------------------------
(* C30 *)

\* C30: the props hand-off.  When the scrape step succeeded with newly
\* scraped props, the props file the predict step reads is the file the
\* scraper wrote in this run, and the predictions are made for those props.
C30_PropsHandOff ==
    (/\ files[ScraperOutputPath] # None
     /\ files[ScraperOutputPath][1].run = "this"
     /\ "predict" \in StepNames) =>
        /\ files[RealtimeTodaysProps] = files[ScraperOutputPath]
        /\ (/\ files[ANALYSIS_OUTPUT] # None
            /\ files[ANALYSIS_OUTPUT][1].run = "this") =>
               files[ANALYSIS_OUTPUT][1].source = "this"

====
